---- MODULE Spec2Model ----
(***************************************************************************)
(* A model of the PubMed batch extractor                                   *)
(* (bifextraction/batch_pubmed_claude_multiagent.py): the shard planner,   *)
(* the resumable crawl driver with its state file and its output file, the *)
(* HTTP retry utilities and the three-stage extraction; and of the loader  *)
(* of searchtools/build_and_test_wholebif_rdb_patched_clean.py.            *)
(***************************************************************************)
EXTENDS Integers, Sequences, FiniteSets, TLC

(***************************************************************************)
(* Bounds of the model.                                                    *)
(***************************************************************************)
\* the number of years of the widest range handed to the planner
MaxSpan == 4

\* the number of runs of the crawl driver on one state file and output file
MaxRuns == 3

\* the largest --target_rows a run is started with
MaxTarget == 3

\* the number of spreadsheet rows the loader is given
MaxRowOps == 4

\* --chunk_size: the page size of the identifier search
ChunkSize == 2

\* the window of years the planner is studied on
Years == 2000 .. (2000 + MaxSpan - 1)

\* the caps plan_shards is called with when it is studied on its own
Caps == {0, 100}

\* the hit counts the search index may report for a range: under a cap of 100
\* the values 0, 60, 80, 90, 150, 250, and otherwise zero, the cap and cap + 1
CountValues(cap) ==
    IF cap = 100 THEN {0, 60, 80, 90, 150, 250} ELSE {0, cap, cap + 1}

(***************************************************************************)
(* State.                                                                  *)
(***************************************************************************)
VARIABLES
    plan_pc,      \* plan_shards: "idle", "split" (inside split), "returned"
    plan_args,    \* [start_year, end_year, cap] of the call
    plan_stack,   \* the calls of split still to run: <<y0, y1, depth>>, next first
    plan_out,     \* the shards returned so far, in order: <<y0, y1, c>>
    plan_log,     \* every count query issued by this call: <<y0, y1, c>>
    plan_depth,   \* the deepest level of split entered by this call
    \* the files, which outlive a process
    state_file,   \* --state_json: [exists, current_shard, retstart, shards, processed_pmids]
    out_csv,      \* --out_csv: [exists, lines], a line being the header or a data row
    csv_synced,   \* how many lines of out_csv have left the writer's buffer
    \* the running process (main)
    pc,           \* "idle" (no process), "loaded", "planning", "count", "loop", "page", "doc"
    target_rows,  \* args.target_rows of this run
    state,        \* the state dict in memory
    current_rows, \* the row count in memory
    seen_keys,    \* the keys (pmid, sender, receiver) written by this process
    ids,          \* the page of identifiers being processed
    meta_req,     \* the identifiers whose metadata was asked for, for this page
    summaries,    \* the metadata entries of the page, as pmids
    si,           \* the position in summaries
    cur,          \* the pmid whose projections are being written
    projs,        \* classified_projections of cur
    pj,           \* the position in projs
    \* history, read by the properties only
    run,          \* how many runs were started
    plan_calls,   \* how many times plan_shards was called, over all runs
    loaded,       \* the state file as this run found it at startup
    cfg,          \* the last process's arguments: is there an email, an API key
    lastq,        \* <<shard index, retstart>> of this run's last identifier query
    run_keys,     \* the key of every row this run wrote, in order
    clean,        \* no process was killed so far
    ended,        \* how the last process ended: "complete", "target", "killed",
                  \* "config" (an assert on the arguments failed); "none"
                  \* before the first one and while one is running
    \* one call of safe_json, with the calls of eutils_get it makes
    h_pc,         \* "idle", "safe" (safe_json's loop), "get" (eutils_get's loop),
                  \* "got" (eutils_get returned), "done" (safe_json returned)
    s_att,        \* safe_json's att
    h_att,        \* eutils_get's att
    h_ret,        \* what eutils_get returned: [kind, status, json]
    s_ret,        \* what safe_json returned: "none" yet, "json" (the body), "empty" ({})
    h_log,        \* the outcome of every request of this call of eutils_get
    h_sleeps,     \* the calls of backoff_sleep in this call of eutils_get
    s_calls,      \* the calls of eutils_get in this call of safe_json
    h_total,      \* the requests of this call of safe_json
    \* one call of claude_extract_multiagent
    ex_pc,        \* "idle", "start", "agent1", "agent2", "agent3" (the stage is
                  \* called and has not answered), "done", "raised"
    api_key,      \* is there an API key (argument or environment)
    regions,      \* stage 1's regions
    projections,  \* stage 2's projections
    ex_calls,     \* history: the stages called, each with its input
    ex_resp,      \* history: what each called stage answered
    ex_ret,       \* the list returned
    \* the loader and its database
    db,           \* the tables: project, references_tbl, circuits, connections;
                  \* the number of changelog rows; has an insert failed on a
                  \* foreign key
    row_ops,      \* the spreadsheet rows handled so far
    last_row,     \* history: the sheet of the last row handled, and was it skipped
    \* one call of a function that uses the fetch primitives
    c_pc,         \* "idle", "called", "pmc", "linked", "abstract" (inside
                  \* resolve_text_for_pmid), "done", "raised"
    c_fn,         \* the function called
    c_in,         \* what the fetch primitive returned to it, one entry per request
    c_links,      \* resolve_text_for_pmid: links
    c_k,          \* resolve_text_for_pmid: the position in ["pdf", "html"]
    c_log,        \* history: the text sources tried, in order
    c_ans,        \* history: the text each of them yielded
    c_ret,        \* the value returned
    \* the query application: its connection pool and its handler invocations
    on_loan,      \* the connections the pool has handed out and not got back
    inv,          \* per invocation: [kind, pc, held, left, err]
    \* the Flex Pair Finder's components
    region_text,  \* the region in the text box
    mode,         \* the direction radio
    receivers_dd, \* [choices, interactive]: the candidates as a number
    senders_dd,   \* [choices, interactive]
    counts_state  \* [cnt_as_sender, cnt_as_receiver]

plan_vars == <<plan_pc, plan_args, plan_stack, plan_out, plan_log, plan_depth>>

file_vars == <<state_file, out_csv, csv_synced>>

proc_vars == <<pc, target_rows, state, current_rows, seen_keys, ids, meta_req,
               summaries, si, cur, projs, pj>>

hist_vars == <<run, plan_calls, loaded, cfg, lastq, run_keys, clean, ended>>

http_vars == <<h_pc, s_att, h_att, h_ret, s_ret, h_log, h_sleeps, s_calls, h_total>>

drv_vars == <<file_vars, proc_vars, hist_vars>>

pipe_vars == <<ex_pc, api_key, regions, projections, ex_calls, ex_resp, ex_ret>>

load_vars == <<db, row_ops, last_row>>

call_vars == <<c_pc, c_fn, c_in, c_links, c_k, c_log, c_ans, c_ret>>

pool_vars == <<on_loan, inv>>

flex_vars == <<region_text, mode, receivers_dd, senders_dd, counts_state>>

\* what the driver and the planner leave alone
aux_vars == <<http_vars, pipe_vars, load_vars, call_vars, pool_vars, flex_vars>>

vars == <<plan_vars, drv_vars, aux_vars>>

(***************************************************************************)
(* Shard planner: plan_shards and its inner split.                         *)
(***************************************************************************)
\* mid = (y0 + y1) // 2
Mid(y0, y1) == (y0 + y1) \div 2

\* split without its base case: a range over the cap is always bisected
IsLeaf_NoBase(y0, y1, c, cap) == c <= cap

\* split emits the range as it is: the count fits, or mid == y0
IsLeaf(y0, y1, c, cap) == c <= cap \/ Mid(y0, y1) = y0

\* a bisection whose halves share the middle year
Children_Overlap(y0, y1) == << <<y0, Mid(y0, y1)>>, <<Mid(y0, y1), y1>> >>

\* the two recursive calls, left first: split(y0, mid) + split(mid+1, y1)
Children(y0, y1) == << <<y0, Mid(y0, y1)>>, <<Mid(y0, y1) + 1, y1>> >>

\* the planner's locals when no call is under way
PlanReset ==
    /\ plan_pc' = "idle"
    /\ plan_stack' = << >>
    /\ plan_out' = << >>
    /\ plan_log' = << >>
    /\ plan_depth' = 0
    /\ UNCHANGED plan_args

\* plan_shards(...) is entered: split(start_year, end_year) is the first call
PlanCall(y0, y1, cap) ==
    /\ plan_pc' = "split"
    /\ plan_args' = [start_year |-> y0, end_year |-> y1, cap |-> cap]
    /\ plan_stack' = << <<y0, y1, 1>> >>
    /\ plan_out' = << >>
    /\ plan_log' = << >>
    /\ plan_depth' = 0

\* one call of split: one count query, then a leaf or two further calls.
\* The pending calls are kept next-first, so the leaves are appended in the
\* order in which the recursion concatenates them.
PlanSplit ==
    /\ plan_pc = "split"
    /\ plan_stack # << >>
    /\ LET fr == Head(plan_stack)
           y0 == fr[1]
           y1 == fr[2]
           d  == fr[3]
       IN \E c \in CountValues(plan_args.cap) :
            /\ plan_log' = Append(plan_log, <<y0, y1, c>>)
            /\ plan_depth' = IF d > plan_depth THEN d ELSE plan_depth
            /\ IF IsLeaf(y0, y1, c, plan_args.cap)
               THEN /\ plan_out' = Append(plan_out, <<y0, y1, c>>)
                    /\ plan_stack' = Tail(plan_stack)
               ELSE /\ plan_out' = plan_out
                    /\ plan_stack' =
                         << <<Children(y0, y1)[1][1], Children(y0, y1)[1][2], d + 1>>,
                            <<Children(y0, y1)[2][1], Children(y0, y1)[2][2], d + 1>> >>
                         \o Tail(plan_stack)
    /\ UNCHANGED <<plan_pc, plan_args>>

\* the outermost split has returned: plan_shards returns its list
PlanReturn ==
    /\ plan_pc = "split"
    /\ plan_stack = << >>
    /\ plan_pc' = "returned"
    /\ UNCHANGED <<plan_args, plan_stack, plan_out, plan_log, plan_depth>>

(***************************************************************************)
(* HTTP utilities: eutils_get and safe_json.                               *)
(***************************************************************************)
\* eutils_get(..., max_attempts=6) and safe_json(..., attempts=5)
MaxAttempts == 6
SafeAttempts == 5

\* what one requests.get can end in: an exception (0) or a status code
Statuses == {0, 200, 204, 404, 503}

\* a response and whether its body parses as JSON
Responses == {[kind |-> "resp", status |-> st, json |-> j] :
                st \in Statuses \ {0}, j \in BOOLEAN}

NoResponse == [kind |-> "none", status |-> 0, json |-> FALSE]

\* a loop that runs once more than asked
MoreAttempts_OneMore(att, max) == att <= max

\* for att in range(max_attempts)
MoreAttempts(att, max) == att < max

\* if r.status_code in (429, 500, 502, 503, 504)
Retryable(status) == status \in {429, 500, 502, 503, 504}

\* r.raise_for_status() raises for a client or server error status
RaisesForStatus(status) == status >= 400 /\ status < 600

\* the attempt ends without a response to return: requests.get raised, the
\* status is retryable, or raise_for_status raised
AttemptFails(status) == status = 0 \/ Retryable(status) \/ RaisesForStatus(status)

\* a backoff that is skipped after the first attempt
Backoffs_NotFirst(att, status) == IF AttemptFails(status) /\ att > 0 THEN 1 ELSE 0

\* backoff_sleep(attempt=att) is called after every attempt that fails
Backoffs(att, status) == IF AttemptFails(status) THEN 1 ELSE 0

\* safe_json's loop calls eutils_get
SafeCall ==
    /\ h_pc = "safe"
    /\ MoreAttempts(s_att, SafeAttempts)
    /\ h_pc' = "get"
    /\ h_att' = 0
    /\ h_log' = << >>
    /\ h_sleeps' = 0
    /\ h_ret' = NoResponse
    /\ s_calls' = s_calls + 1
    /\ UNCHANGED <<s_att, s_ret, h_total>>

\* one attempt of eutils_get: the request, then return r, or backoff_sleep
\* and the next attempt
GetAttempt ==
    /\ h_pc = "get"
    /\ MoreAttempts(h_att, MaxAttempts)
    /\ \E r \in Responses \cup {NoResponse} :
         /\ h_log' = Append(h_log, r.status)
         /\ h_sleeps' = h_sleeps + Backoffs(h_att, r.status)
         /\ IF AttemptFails(r.status)
            THEN /\ h_att' = h_att + 1
                 /\ UNCHANGED <<h_pc, h_ret>>
            ELSE /\ h_ret' = r
                 /\ h_pc' = "got"
                 /\ UNCHANGED h_att
    /\ h_total' = h_total + 1
    /\ UNCHANGED <<s_att, s_ret, s_calls>>

\* every attempt of eutils_get failed: return None
GetGiveUp ==
    /\ h_pc = "get"
    /\ ~MoreAttempts(h_att, MaxAttempts)
    /\ h_ret' = NoResponse
    /\ h_pc' = "got"
    /\ UNCHANGED <<s_att, h_att, s_ret, h_log, h_sleeps, s_calls, h_total>>

\* safe_json has r: None or a body that does not parse is slept on and
\* retried, a body that parses is returned
SafeHandle ==
    /\ h_pc = "got"
    /\ IF h_ret.kind = "resp" /\ h_ret.json
       THEN /\ s_ret' = "json"
            /\ h_pc' = "done"
            /\ UNCHANGED s_att
       ELSE /\ s_att' = s_att + 1
            /\ h_pc' = "safe"
            /\ UNCHANGED s_ret
    /\ UNCHANGED <<h_att, h_ret, h_log, h_sleeps, s_calls, h_total>>

\* safe_json's loop is over: return {}
SafeGiveUp ==
    /\ h_pc = "safe"
    /\ ~MoreAttempts(s_att, SafeAttempts)
    /\ s_ret' = "empty"
    /\ h_pc' = "done"
    /\ UNCHANGED <<s_att, h_att, h_ret, h_log, h_sleeps, s_calls, h_total>>

\* no call of safe_json under way
HttpIdle ==
    /\ h_pc = "idle"
    /\ s_att = 0
    /\ h_att = 0
    /\ h_ret = NoResponse
    /\ s_ret = "none"
    /\ h_log = << >>
    /\ h_sleeps = 0
    /\ s_calls = 0
    /\ h_total = 0

\* safe_json is called
SafeJsonCalled ==
    /\ h_pc = "safe"
    /\ s_att = 0
    /\ h_att = 0
    /\ h_ret = NoResponse
    /\ s_ret = "none"
    /\ h_log = << >>
    /\ h_sleeps = 0
    /\ s_calls = 0
    /\ h_total = 0

(***************************************************************************)
(* claude_extract_multiagent: three stages, each one call of the model     *)
(* that is forced to answer through a tool.                                *)
(***************************************************************************)
\* projection records as stage 2 can give them; the second one already
\* carries a method
ProjA == [sender |-> "M1", receiver |-> "Th", quote |-> "q1"]
ProjB == [sender |-> "Th", receiver |-> "M1", quote |-> "q2", method |-> "Tracer"]

RegionLists == {<< >>, <<"M1">>, <<"M1", "Th">>}

ProjectionLists == {<< >>, <<ProjA>>, <<ProjA, ProjB>>, <<ProjB, ProjA>>}

\* a record of stage 3: the projection with its four classification fields
\* (confidences in hundredths)
Classified(p, m, t) ==
    [f \in DOMAIN p \cup {"method", "method_confidence", "taxon", "taxon_confidence"} |->
        CASE f = "method" -> m
          [] f = "method_confidence" -> 90
          [] f = "taxon" -> t
          [] f = "taxon_confidence" -> 80
          [] OTHER -> p[f]]

\* the lists stage 3 can give for these projections: all classified, none,
\* or only the first
ClassifiedLists(ps) ==
    LET all == [i \in 1 .. Len(ps) |-> Classified(ps[i], "Tracer study", "Rat")]
    IN  {all, << >>, IF all = << >> THEN all ELSE <<all[1]>>}

\* what a stage's call can end in: messages.create raises; the answer has
\* no tool_use block of the tool; the tool input lacks the field; the field
\* is null; the field is a list
StageAnswers(lists) ==
    {[kind |-> k, value |-> << >>] : k \in {"raise", "notool", "nofield", "null"}}
        \cup {[kind |-> "list", value |-> l] : l \in lists}

\* if not data or field not in data
NoData(ans) == ans.kind \in {"notool", "nofield"}

\* the try block of a stage raises: messages.create did, or len() of a null
\* field does
StageRaises(ans) == ans.kind \in {"raise", "null"}

\* a stage-3 failure that drops the projections
Unclassified_Dropped(ps) == << >>

\* the projections with the four classification fields set to the
\* "Unspecified" values (0.0 as 0)
Unclassified(ps) ==
    [i \in 1 .. Len(ps) |->
        [f \in DOMAIN ps[i] \cup {"method", "method_confidence", "taxon", "taxon_confidence"} |->
            CASE f = "method" -> "Unspecified"
              [] f = "method_confidence" -> 0
              [] f = "taxon" -> "Unspecified"
              [] f = "taxon_confidence" -> 0
              [] OTHER -> ps[i][f]]]

\* a hand-over that passes on the first record only
FieldOf_Head(ans) == IF ans.value = << >> THEN << >> ELSE <<ans.value[1]>>

\* regions = regions_data["regions"], projections = projections_data["projections"]
FieldOf(ans) == ans.value

\* the API key is looked up; without one RuntimeError is raised
ExtractStart ==
    /\ ex_pc = "start"
    /\ IF api_key
       THEN /\ ex_pc' = "agent1"
            /\ ex_calls' = Append(ex_calls, [stage |-> 1, input |-> << >>])
       ELSE /\ ex_pc' = "raised"
            /\ UNCHANGED ex_calls
    /\ UNCHANGED <<api_key, regions, projections, ex_resp, ex_ret>>

\* stage 1 answers: return [] or go on to stage 2 with the regions
Agent1 ==
    /\ ex_pc = "agent1"
    /\ \E ans \in StageAnswers(RegionLists) :
         /\ ex_resp' = Append(ex_resp, ans)
         /\ IF StageRaises(ans) \/ NoData(ans)
            THEN /\ ex_ret' = << >>
                 /\ ex_pc' = "done"
                 /\ UNCHANGED <<regions, ex_calls>>
            ELSE /\ regions' = FieldOf(ans)
                 /\ ex_pc' = "agent2"
                 /\ ex_calls' = Append(ex_calls, [stage |-> 2, input |-> regions'])
                 /\ UNCHANGED ex_ret
    /\ UNCHANGED <<api_key, projections>>

\* stage 2 answers: return [] or go on to stage 3 with the projections
Agent2 ==
    /\ ex_pc = "agent2"
    /\ \E ans \in StageAnswers(ProjectionLists) :
         /\ ex_resp' = Append(ex_resp, ans)
         /\ IF StageRaises(ans) \/ NoData(ans)
            THEN /\ ex_ret' = << >>
                 /\ ex_pc' = "done"
                 /\ UNCHANGED <<projections, ex_calls>>
            ELSE /\ projections' = FieldOf(ans)
                 /\ ex_pc' = "agent3"
                 /\ ex_calls' = Append(ex_calls, [stage |-> 3, input |-> projections'])
                 /\ UNCHANGED ex_ret
    /\ UNCHANGED <<api_key, regions>>

\* stage 3 answers: return its list, or the projections unclassified
Agent3 ==
    /\ ex_pc = "agent3"
    /\ \E ans \in StageAnswers(ClassifiedLists(projections)) :
         /\ ex_resp' = Append(ex_resp, ans)
         /\ ex_ret' = IF StageRaises(ans) \/ NoData(ans)
                       THEN Unclassified(projections)
                       ELSE ans.value
    /\ ex_pc' = "done"
    /\ UNCHANGED <<api_key, regions, projections, ex_calls>>

\* no call of claude_extract_multiagent under way
PipeIdle ==
    /\ ex_pc = "idle"
    /\ api_key = TRUE
    /\ regions = << >>
    /\ projections = << >>
    /\ ex_calls = << >>
    /\ ex_resp = << >>
    /\ ex_ret = << >>

\* claude_extract_multiagent is called for one document
ExtractCalled ==
    /\ ex_pc = "start"
    /\ api_key \in BOOLEAN
    /\ regions = << >>
    /\ projections = << >>
    /\ ex_calls = << >>
    /\ ex_resp = << >>
    /\ ex_ret = << >>

(***************************************************************************)
(* The callers of the fetch primitives: esearch_count, esearch_ids and     *)
(* esummary_details read what safe_json returned, resolve_text_for_pmid    *)
(* tries the text sources one after the other and calls eutils_get for     *)
(* the abstract.                                                           *)
(***************************************************************************)
\* the dict {}
EmptyJson == [f \in {} |-> ""]

\* d.get(f, dflt)
Get(d, f, dflt) == IF f \in DOMAIN d THEN d[f] ELSE dflt

\* the bodies safe_json can hand to esearch_count and esearch_ids: {} after
\* the last attempt, or the parsed answer
SearchBodies ==
    {EmptyJson,
     [esearchresult |-> EmptyJson],
     [esearchresult |-> [count |-> "0", idlist |-> << >>]],
     [esearchresult |-> [count |-> "2", idlist |-> <<"p1", "p2">>]],
     [esearchresult |-> [count |-> "many", idlist |-> <<"p1">>]]}

\* the bodies safe_json can hand to esummary_details; the "result" object is
\* given as its keys in the order of the answer
SummaryBodies ==
    {EmptyJson,
     [result |-> <<"uids">>],
     [result |-> <<"uids", "p1", "p2">>],
     [result |-> <<"p2", "uids">>]}

\* does int(s) return
IsInt(s) == s \in {"0", "2"}

\* int(s)
IntOf(s) == CASE s = "0" -> 0 [] s = "2" -> 2

\* a count whose default is the empty string
CountOf_NoDefault(j) == Get(Get(j, "esearchresult", EmptyJson), "count", "")

\* j.get("esearchresult", {}).get("count", "0")
CountOf(j) == Get(Get(j, "esearchresult", EmptyJson), "count", "0")

\* data.get("esearchresult", {}).get("idlist", [])
IdListOf(j) == Get(Get(j, "esearchresult", EmptyJson), "idlist", << >>)

\* one entry per key of safe_json(...).get("result", {}) other than "uids",
\* chunk after chunk
RECURSIVE EntriesOf(_)
EntriesOf(js) ==
    IF js = << >> THEN << >>
    ELSE SelectSeq(Get(js[1], "result", << >>), LAMBDA k : k # "uids")
            \o EntriesOf(Tail(js))

\* a key that links does not hold
Absent == "<absent>"

\* what europepmc_links can return: a key is absent or holds a value; the
\* pdf link is stored whatever its url, the html link only with a url; {}
\* (every key absent) also stands for a failed request
LinkDicts == [pmcid : {Absent, "PMC1"}, pdf : {Absent, "", "u.pdf"}, html : {Absent, "u.html"}]

\* links.get(k) is truthy
LinkGiven(links, k) == links[k] \notin {Absent, ""}

\* links.get(k, "")
LinkOr(links, k) == IF links[k] = Absent THEN "" ELSE links[k]

\* what get_pmc_pdf_text and fetch_url_text can return for a source: its
\* text, or "" (no text, or any exception inside)
TextOf(src) ==
    CASE src = "pmc" -> "text of the PMC PDF"
      [] src = "pdf" -> "text of the linked PDF"
      [] src = "html" -> "text of the linked page"
      [] src = "abstract" -> "text of the abstract"

Yields(src) == {"", TextOf(src)}

\* a loop over the links that tries the page before the PDF
LinkOrder_HtmlFirst == <<"html", "pdf">>

\* for k in ["pdf", "html"]
LinkOrder == <<"pdf", "html">>

\* what eutils_get can return for the abstract: None, or a response whose
\* status did not make raise_for_status raise
AbstractAnswers ==
    {[kind |-> "none", status |-> 0, text |-> ""]}
        \cup {[kind |-> "resp", status |-> st, text |-> t] :
                 st \in {200, 204}, t \in Yields("abstract")}

\* r.text if (r and r.status_code == 200) else ""
AbstractText(r) == IF r.kind = "resp" /\ r.status = 200 THEN r.text ELSE ""

Callers == {"esearch_count", "esearch_ids", "esummary_details", "resolve_text_for_pmid"}

\* the answers of safe_json to the requests of one call: one request, and
\* for esummary_details one per chunk of identifiers
InputsOf(fn) ==
    CASE fn \in {"esearch_count", "esearch_ids"} -> {<<j>> : j \in SearchBodies}
      [] fn = "esummary_details" ->
            {<<j>> : j \in SummaryBodies} \cup {<<j1, j2>> : j1 \in SummaryBodies, j2 \in SummaryBodies}
      [] OTHER -> {<< >>}

NoLinks == [pmcid |-> Absent, pdf |-> Absent, html |-> Absent]

\* esearch_count returns int(count), or int raises
CallCount ==
    /\ c_pc = "called"
    /\ c_fn = "esearch_count"
    /\ IF IsInt(CountOf(c_in[1]))
       THEN c_ret' = IntOf(CountOf(c_in[1])) /\ c_pc' = "done"
       ELSE c_pc' = "raised" /\ UNCHANGED c_ret
    /\ UNCHANGED <<c_fn, c_in, c_links, c_k, c_log, c_ans>>

\* esearch_ids returns the idlist
CallIds ==
    /\ c_pc = "called"
    /\ c_fn = "esearch_ids"
    /\ c_ret' = IdListOf(c_in[1])
    /\ c_pc' = "done"
    /\ UNCHANGED <<c_fn, c_in, c_links, c_k, c_log, c_ans>>

\* esummary_details returns the entries of every chunk
CallSummaries ==
    /\ c_pc = "called"
    /\ c_fn = "esummary_details"
    /\ c_ret' = EntriesOf(c_in)
    /\ c_pc' = "done"
    /\ UNCHANGED <<c_fn, c_in, c_links, c_k, c_log, c_ans>>

\* resolve_text_for_pmid: links = europepmc_links(pmid)
ResolveLinks ==
    /\ c_pc = "called"
    /\ c_fn = "resolve_text_for_pmid"
    /\ c_links' \in LinkDicts
    /\ c_pc' = "pmc"
    /\ UNCHANGED <<c_fn, c_in, c_k, c_log, c_ans, c_ret>>

\* if "pmcid" in links: the PMC PDF is tried, and its text returned if any
ResolvePmc ==
    /\ c_pc = "pmc"
    /\ IF c_links.pmcid # Absent
       THEN \E t \in Yields("pmc") :
              /\ c_log' = Append(c_log, "pmc")
              /\ c_ans' = Append(c_ans, t)
              /\ IF t # ""
                 THEN /\ c_ret' = [text |-> t, pmcid |-> c_links.pmcid]
                      /\ c_pc' = "done"
                      /\ UNCHANGED c_k
                 ELSE /\ c_pc' = "linked"
                      /\ c_k' = 1
                      /\ UNCHANGED c_ret
       ELSE /\ c_pc' = "linked"
            /\ c_k' = 1
            /\ UNCHANGED <<c_log, c_ans, c_ret>>
    /\ UNCHANGED <<c_fn, c_in, c_links>>

\* one round of the loop over the links: the link is tried if there is one,
\* and its text returned if any
ResolveLinked ==
    /\ c_pc = "linked"
    /\ c_k <= Len(LinkOrder)
    /\ LET k == LinkOrder[c_k]
       IN  IF LinkGiven(c_links, k)
           THEN \E t \in Yields(k) :
                  /\ c_log' = Append(c_log, k)
                  /\ c_ans' = Append(c_ans, t)
                  /\ IF t # ""
                     THEN /\ c_ret' = [text |-> t, pmcid |-> LinkOr(c_links, "pmcid")]
                          /\ c_pc' = "done"
                          /\ UNCHANGED c_k
                     ELSE /\ c_k' = c_k + 1
                          /\ UNCHANGED <<c_pc, c_ret>>
           ELSE /\ c_k' = c_k + 1
                /\ UNCHANGED <<c_pc, c_log, c_ans, c_ret>>
    /\ UNCHANGED <<c_fn, c_in, c_links>>

\* the loop over the links is over: on to the abstract
ResolveFallback ==
    /\ c_pc = "linked"
    /\ c_k > Len(LinkOrder)
    /\ c_pc' = "abstract"
    /\ UNCHANGED <<c_fn, c_in, c_links, c_k, c_log, c_ans, c_ret>>

\* the abstract is asked of eutils_get and info is returned
ResolveAbstract ==
    /\ c_pc = "abstract"
    /\ \E r \in AbstractAnswers :
         /\ c_in' = <<r>>
         /\ c_log' = Append(c_log, "abstract")
         /\ c_ans' = Append(c_ans, AbstractText(r))
         /\ c_ret' = [text |-> AbstractText(r), pmcid |-> ""]
    /\ c_pc' = "done"
    /\ UNCHANGED <<c_fn, c_links, c_k>>

\* no such call under way
CallIdle ==
    /\ c_pc = "idle"
    /\ c_fn = ""
    /\ c_in = << >>
    /\ c_links = NoLinks
    /\ c_k = 0
    /\ c_log = << >>
    /\ c_ans = << >>
    /\ c_ret = << >>

\* one of the four functions is called
CallerCalled ==
    /\ c_pc = "called"
    /\ c_fn \in Callers
    /\ c_in \in InputsOf(c_fn)
    /\ c_links = NoLinks
    /\ c_k = 0
    /\ c_log = << >>
    /\ c_ans = << >>
    /\ c_ret = << >>

(***************************************************************************)
(* The query application: with_conn on a pool of PoolMax connections, and  *)
(* the UI handlers that call functions wrapped by it. getconn and putconn  *)
(* are taken as single steps.                                              *)
(***************************************************************************)
\* DB_POOL_MAX, and as many handler invocations at a time
PoolMax == 2

Invocations == 1 .. PoolMax

\* the handlers by the wrapped functions they call: "single" calls one
\* (update_counterparts), "sequence" calls three, one after the other
\* (lookup_from_flex, run_query), "nested" calls one whose body calls
\* detect_flags, itself wrapped (the suggest_* handlers)
HandlerKinds == {"single", "sequence", "nested"}

\* how many wrapped functions the handler calls itself
CallsOf(kind) == IF kind = "sequence" THEN 3 ELSE 1

\* a wrapper that returns the connection only when fn returns
Returned_OnSuccessOnly(raising) == ~raising

\* finally: p.putconn(conn)
Returned(raising) == TRUE

Quiet(i) == i.pc \in {"idle", "done", "failed"}

\* a UI event starts a handler
HandlerStart(h) ==
    /\ Quiet(inv[h])
    /\ \E k \in HandlerKinds :
         inv' = [inv EXCEPT ![h] = [kind |-> k, pc |-> "call", held |-> 0,
                                    left |-> CallsOf(k), err |-> ""]]
    /\ UNCHANGED on_loan

\* wrapper: conn = p.getconn(), which raises PoolError when every
\* connection of the pool is on loan
Borrow(h) ==
    /\ inv[h].pc = "call"
    /\ IF on_loan < PoolMax
       THEN /\ on_loan' = on_loan + 1
            /\ inv' = [inv EXCEPT ![h].held = @ + 1, ![h].pc = "body"]
       ELSE /\ inv' = [inv EXCEPT ![h].err = "exhausted",
                                  ![h].pc = IF inv[h].held > 0 THEN "raising" ELSE "failed"]
            /\ UNCHANGED on_loan

\* the body of the wrapped function: it calls detect_flags (first statement
\* of the suggest functions), or it runs its queries and returns or raises
Body(h) ==
    /\ inv[h].pc = "body"
    /\ IF inv[h].kind = "nested" /\ inv[h].held = 1 /\ inv[h].left = 1
       THEN inv' = [inv EXCEPT ![h].pc = "call", ![h].left = 0]
       ELSE \E raises \in BOOLEAN :
              inv' = [inv EXCEPT ![h].pc = IF raises THEN "raising" ELSE "returning",
                                 ![h].err = IF raises THEN "db" ELSE @]
    /\ UNCHANGED on_loan

\* the wrapper is left: the connection goes back to the pool; an exception
\* goes on to the caller, which is the enclosing wrapped function or the
\* handler's except clause
Leave(h) ==
    /\ inv[h].pc \in {"returning", "raising"}
    /\ LET raising == inv[h].pc = "raising"
           held == inv[h].held - 1
           left == IF inv[h].kind = "nested" THEN 0 ELSE inv[h].left - 1
       IN  /\ on_loan' = IF Returned(raising) THEN on_loan - 1 ELSE on_loan
           /\ inv' = [inv EXCEPT
                 ![h].held = held,
                 ![h].left = left,
                 ![h].pc = CASE raising /\ held > 0 -> "raising"
                             [] raising -> "failed"
                             [] held > 0 -> "body"
                             [] left > 0 -> "call"
                             [] OTHER -> "done"]

\* the application before any event
PoolIdle ==
    /\ on_loan = 0
    /\ inv = [h \in Invocations |->
                [kind |-> "single", pc |-> "idle", held |-> 0, left |-> 0, err |-> ""]]

(***************************************************************************)
(* The Flex Pair Finder: update_counterparts after a region is selected or *)
(* the candidates are refreshed, toggle_mode when the direction changes.   *)
(***************************************************************************)
\* the most candidates a region has on either side
MaxCand == 3

FlexRegions == {"", "A", "B"}

Modes == {"Auto", "Use as Sender", "Use as Receiver"}

\* what _counterparts answers: the two candidate lists by their lengths, or
\* an exception
CounterpartAnswers ==
    [receivers : 0 .. MaxCand, senders : 0 .. MaxCand, raised : BOOLEAN]

\* the direction update_counterparts chooses from the counts
ModeFor(cnt_s, cnt_r) ==
    IF cnt_s > 0 /\ cnt_r = 0 THEN "Use as Sender"
    ELSE IF cnt_s = 0 /\ cnt_r > 0 THEN "Use as Receiver"
    ELSE "Auto"

NoCandidates ==
    [mode |-> "Auto",
     receivers_dd |-> [choices |-> 0, interactive |-> FALSE],
     senders_dd |-> [choices |-> 0, interactive |-> FALSE],
     counts_state |-> [cnt_as_sender |-> 0, cnt_as_receiver |-> 0]]

\* the outputs of update_counterparts for a region and an answer of the
\* database
update_counterparts(selected_region, ans) ==
    IF selected_region = "" \/ ans.raised THEN NoCandidates
    ELSE LET cnt_s == ans.receivers
             cnt_r == ans.senders
             mode_val == ModeFor(cnt_s, cnt_r)
         IN  [mode |-> mode_val,
              receivers_dd |-> [choices |-> cnt_s,
                  interactive |-> cnt_s > 0 /\ mode_val # "Use as Receiver"],
              senders_dd |-> [choices |-> cnt_r,
                  interactive |-> cnt_r > 0 /\ mode_val # "Use as Sender"],
              counts_state |-> [cnt_as_sender |-> cnt_s, cnt_as_receiver |-> cnt_r]]

\* the interactive flags toggle_mode returns: <<receivers, senders>>
toggle_mode(m, counts) ==
    LET cnt_s == counts.cnt_as_sender
        cnt_r == counts.cnt_as_receiver
    IN  IF m = "Use as Sender" THEN <<TRUE, FALSE>>
        ELSE IF m = "Use as Receiver" THEN <<FALSE, TRUE>>
        ELSE IF cnt_s > 0 /\ cnt_r = 0 THEN <<TRUE, FALSE>>
        ELSE IF cnt_s = 0 /\ cnt_r > 0 THEN <<FALSE, TRUE>>
        ELSE <<TRUE, TRUE>>

\* region_suggest.select: the region goes to the text box, then
\* update_counterparts_and_clear sets the radio, both dropdowns and the counts
SelectRegion ==
    \E r \in FlexRegions, ans \in CounterpartAnswers :
        LET out == update_counterparts(r, ans)
        IN  /\ region_text' = r
            /\ mode' = out.mode
            /\ receivers_dd' = out.receivers_dd
            /\ senders_dd' = out.senders_dd
            /\ counts_state' = out.counts_state

\* btn_refresh.click: update_counterparts again for the region in the box
RefreshCandidates ==
    \E ans \in CounterpartAnswers :
        LET out == update_counterparts(region_text, ans)
        IN  /\ mode' = out.mode
            /\ receivers_dd' = out.receivers_dd
            /\ senders_dd' = out.senders_dd
            /\ counts_state' = out.counts_state
            /\ UNCHANGED region_text

\* mode.change: the user picks another direction; the choices stay
ChangeMode ==
    \E m \in Modes \ {mode} :
        LET out == toggle_mode(m, counts_state)
        IN  /\ mode' = m
            /\ receivers_dd' = [receivers_dd EXCEPT !.interactive = out[1]]
            /\ senders_dd' = [senders_dd EXCEPT !.interactive = out[2]]
            /\ UNCHANGED <<region_text, counts_state>>

\* the tab as build_ui makes it
FlexIdle ==
    /\ region_text = ""
    /\ mode = "Auto"
    /\ receivers_dd = [choices |-> 0, interactive |-> FALSE]
    /\ senders_dd = [choices |-> 0, interactive |-> FALSE]
    /\ counts_state = [cnt_as_sender |-> 0, cnt_as_receiver |-> 0]

(***************************************************************************)
(* The loader: fill_required, the ensure_* repairs and the insert_*        *)
(* upserts, on tables that enforce their foreign keys.                     *)
(***************************************************************************)
\* Python's None, as map_row gives it for an empty cell
None == "<None>"

\* the cells a spreadsheet row can hold
ProjectCells == {None, "NA", "P1"}
ReferenceCells == {None, "R1", "R2"}
CircuitCells == {None, "C1", "C2"}

\* rec.get(col): a value that is there and not empty
Truthy(v) == v # None /\ v # ""

\* rec.get(col) in (None, "", "NA", "(no DOI)", "(no BibTex)")
NeedsDefault(v) == v \in {None, "", "NA", "(no DOI)", "(no BibTex)"}

\* f"AUTO_PROJECT_{cid}"
AutoProject(cid) ==
    CASE cid = "C1" -> "AUTO_PROJECT_C1"
      [] cid = "C2" -> "AUTO_PROJECT_C2"
      [] OTHER -> "AUTO_PROJECT_None"

EmptyDb ==
    [project |-> {}, references_tbl |-> {}, circuits |-> {}, connections |-> {},
     changelog |-> 0, fk_error |-> FALSE]

ProjectIdsOf(d) == {r.project_id : r \in d.project}
ReferenceIdsOf(d) == {r.reference_id : r \in d.references_tbl}
CircuitIdsOf(d) == {r.circuit_id : r \in d.circuits}

\* log_change: one more changelog row
log_change(d) == [d EXCEPT !.changelog = @ + 1]

\* INSERT ... ON CONFLICT (project_id) DO UPDATE, then log_change
insert_project(d, rec) ==
    log_change([d EXCEPT !.project =
        {r \in @ : r.project_id # rec.project_id} \cup {rec}])

\* a repair that writes the placeholder whether or not the row is there
ensure_project_exists_Always(d, pid) ==
    insert_project(d, [project_id |-> pid, description |-> "(auto-insert)"])

\* the row is inserted only if it is not there
ensure_project_exists(d, pid) ==
    IF pid \in ProjectIdsOf(d) THEN d
    ELSE insert_project(d, [project_id |-> pid, description |-> "(auto-insert)"])

\* the upsert of a references row: the table's foreign key on project_id is
\* checked by the database unless project_id is null
insert_references(d, rec) ==
    LET d1 == IF Truthy(rec.project_id)
              THEN ensure_project_exists(d, rec.project_id) ELSE d
    IN  IF rec.project_id # None /\ rec.project_id \notin ProjectIdsOf(d1)
        THEN [d1 EXCEPT !.fk_error = TRUE]
        ELSE log_change([d1 EXCEPT !.references_tbl =
                 {r \in @ : r.reference_id # rec.reference_id} \cup {rec}])

\* the upsert of a circuits row: the database checks its project
insert_circuits(d, rec) ==
    IF rec.project_id \notin ProjectIdsOf(d)
    THEN [d EXCEPT !.fk_error = TRUE]
    ELSE log_change([d EXCEPT !.circuits =
             {r \in @ : r.circuit_id # rec.circuit_id} \cup {rec}])

\* the upsert of a connections row: the database checks both circuits and
\* the reference
insert_connections(d, rec) ==
    IF \/ rec.sender_circuit_id \notin CircuitIdsOf(d)
       \/ rec.receiver_circuit_id \notin CircuitIdsOf(d)
       \/ rec.reference_id \notin ReferenceIdsOf(d)
    THEN [d EXCEPT !.fk_error = TRUE]
    ELSE log_change([d EXCEPT !.connections = @ \cup {rec}])

\* a placeholder circuit without its placeholder project
ensure_circuit_exists_NoProject(d, cid) ==
    IF cid \in CircuitIdsOf(d) THEN d
    ELSE insert_circuits(d, [circuit_id |-> cid, source_of_id |-> "AUTO_SRC",
                             project_id |-> AutoProject(cid)])

\* the placeholder project first, then the placeholder circuit
ensure_circuit_exists(d, cid) ==
    IF cid \in CircuitIdsOf(d) THEN d
    ELSE LET d1 == IF AutoProject(cid) \in ProjectIdsOf(d) THEN d
                   ELSE insert_project(d, [project_id |-> AutoProject(cid),
                                           description |-> "(auto-insert)"])
         IN  insert_circuits(d1, [circuit_id |-> cid, source_of_id |-> "AUTO_SRC",
                                  project_id |-> AutoProject(cid)])

ensure_reference_exists(d, ref_id) ==
    IF ref_id \in ReferenceIdsOf(d) THEN d
    ELSE insert_references(d, [reference_id |-> ref_id, title |-> "auto",
                               project_id |-> None])

\* the defaults of REQUIRED for the table
FillDefaults(table, rec) ==
    CASE table = "circuits" ->
           [rec EXCEPT !.source_of_id = IF NeedsDefault(@) THEN "UNKNOWN_SRC" ELSE @,
                       !.project_id = IF NeedsDefault(@)
                                      THEN AutoProject(rec.circuit_id) ELSE @]
      [] OTHER -> rec

\* the repairs fill_required makes for the table
EnsureParents(table, rec, d) ==
    CASE table = "references_tbl" ->
           IF Truthy(rec.project_id) THEN ensure_project_exists(d, rec.project_id) ELSE d
      [] table = "circuits" ->
           IF Truthy(rec.project_id) THEN ensure_project_exists(d, rec.project_id) ELSE d
      [] table = "connections" ->
           LET d1 == IF Truthy(rec.sender_circuit_id)
                     THEN ensure_circuit_exists(d, rec.sender_circuit_id) ELSE d
               d2 == IF Truthy(rec.receiver_circuit_id)
                     THEN ensure_circuit_exists(d1, rec.receiver_circuit_id) ELSE d1
           IN  IF Truthy(rec.reference_id)
               THEN ensure_reference_exists(d2, rec.reference_id) ELSE d2
      [] OTHER -> d

\* fill_required: the record with its defaults, the database with the
\* parents the record needs
fill_required(table, rec, d) ==
    LET filled == FillDefaults(table, rec)
    IN  [rec |-> filled, db |-> EnsureParents(table, filled, d)]

\* the integrity checks of run_tests: the rows each of the five queries counts
IntegrityViolations(d) ==
    Cardinality({r \in d.references_tbl :
                    r.project_id # None /\ r.project_id \notin ProjectIdsOf(d)})
    + Cardinality({r \in d.circuits : r.project_id \notin ProjectIdsOf(d)})
    + Cardinality({r \in d.connections : r.sender_circuit_id \notin CircuitIdsOf(d)})
    + Cardinality({r \in d.connections : r.receiver_circuit_id \notin CircuitIdsOf(d)})
    + Cardinality({r \in d.connections : r.reference_id \notin ReferenceIdsOf(d)})

\* main goes on with the next row unless an insert has raised
LoaderRuns == row_ops < MaxRowOps /\ ~db.fk_error

\* a row of the Project sheet
ProjectRow ==
    /\ LoaderRuns
    /\ \E pid \in ProjectCells :
         LET f == fill_required("project", [project_id |-> pid, description |-> None], db)
         IN  /\ db' = IF Truthy(f.rec.project_id) THEN insert_project(f.db, f.rec) ELSE f.db
             /\ last_row' = [table |-> "project", skipped |-> ~Truthy(f.rec.project_id)]
    /\ row_ops' = row_ops + 1

\* a row of the References sheet
ReferencesRow ==
    /\ LoaderRuns
    /\ \E rid \in ReferenceCells, pid \in ProjectCells :
         LET f == fill_required("references_tbl",
                      [reference_id |-> rid, title |-> None, project_id |-> pid], db)
         IN  /\ db' = IF Truthy(f.rec.reference_id) THEN insert_references(f.db, f.rec)
                       ELSE f.db
             /\ last_row' = [table |-> "references_tbl",
                             skipped |-> ~Truthy(f.rec.reference_id)]
    /\ row_ops' = row_ops + 1

\* a row of the Circuits sheet
CircuitsRow ==
    /\ LoaderRuns
    /\ \E cid \in CircuitCells, pid \in ProjectCells :
         LET f == fill_required("circuits",
                      [circuit_id |-> cid, source_of_id |-> None, project_id |-> pid], db)
         IN  /\ db' = IF Truthy(f.rec.circuit_id) THEN insert_circuits(f.db, f.rec)
                       ELSE f.db
             /\ last_row' = [table |-> "circuits", skipped |-> ~Truthy(f.rec.circuit_id)]
    /\ row_ops' = row_ops + 1

\* a row of the Connections sheet: skipped before fill_required without
\* its three keys
ConnectionsRow ==
    /\ LoaderRuns
    /\ \E s \in CircuitCells, r \in CircuitCells, rid \in ReferenceCells :
         LET rec == [sender_circuit_id |-> s, receiver_circuit_id |-> r,
                     reference_id |-> rid]
         IN  /\ db' = IF Truthy(s) /\ Truthy(r) /\ Truthy(rid)
                       THEN LET f == fill_required("connections", rec, db)
                            IN  insert_connections(f.db, f.rec)
                       ELSE db
             /\ last_row' = [table |-> "connections",
                             skipped |-> ~(Truthy(s) /\ Truthy(r) /\ Truthy(rid))]
    /\ row_ops' = row_ops + 1

\* the tables as create_tables leaves them in an empty database
LoaderIdle ==
    /\ db = EmptyDb
    /\ row_ops = 0
    /\ last_row = [table |-> "", skipped |-> FALSE]

(***************************************************************************)
(* The world around the driver: the search index and the extraction.       *)
(***************************************************************************)
\* args.year_start and args.year_end of the modelled runs
DriverYears == <<2000, 2002>>
YearStart == DriverYears[1]
YearEnd == DriverYears[2]

\* the cap main plans with: plan_shards(..., cap=9000)
PlanCap == 9000

\* the identifiers the search index holds, by publication year
IdsOfYear(y) ==
    CASE y = 2000 -> <<"p1", "p2">>
      [] y = 2001 -> <<"p3">>
      [] y = 2002 -> <<"p4">>
      [] OTHER -> << >>

RECURSIVE IdsOfRange(_, _)
IdsOfRange(y0, y1) ==
    IF y0 > y1 THEN << >> ELSE IdsOfYear(y0) \o IdsOfRange(y0 + 1, y1)

Min(a, b) == IF a < b THEN a ELSE b
Max(a, b) == IF a > b THEN a ELSE b

\* the idlist the index returns for a date range: retmax identifiers from retstart
IdPage(retstart, retmax, mindate, maxdate) ==
    LET all == IdsOfRange(mindate, maxdate)
    IN SubSeq(all, retstart + 1, Min(Len(all), retstart + retmax))

\* esearch_ids: the page, or [] when safe_json gave up and returned {}
esearch_ids(retstart, retmax, mindate, maxdate) ==
    {IdPage(retstart, retmax, mindate, maxdate), << >>}

Range(s) == {s[i] : i \in 1 .. Len(s)}

\* esummary_details: one entry per key of the "result" object of the answer,
\* in the order in which the answer lists its keys (res.items()). The result
\* may lack some or (after a failed request) all of the identifiers asked
\* for, and nothing in the code ties the order of its keys to the request.
esummary_details(idlist) ==
    {sm \in UNION {[1 .. n -> Range(idlist)] : n \in 0 .. Len(idlist)} :
        \A i, j \in DOMAIN sm : i # j => sm[i] # sm[j]}

\* what the three-stage extraction finds in a document: projections, each with
\* its (sender, receiver) pair and whether its quote holds a line break
Truth(pmid) ==
    CASE pmid = "p1" -> << [key |-> "a", nl |-> FALSE], [key |-> "a", nl |-> FALSE],
                           [key |-> "b", nl |-> TRUE] >>
      [] pmid = "p2" -> << [key |-> "a", nl |-> FALSE] >>
      [] pmid = "p4" -> << [key |-> "b", nl |-> FALSE] >>
      [] OTHER -> << >>

\* resolve_text_for_pmid followed by claude_extract_multiagent, as main sees it:
\* no text, an exception, or a list of projections ([] when a stage gave up)
DocOutcomes(pmid) ==
    {[kind |-> "notext", projs |-> << >>], [kind |-> "raise", projs |-> << >>],
     [kind |-> "list", projs |-> << >>], [kind |-> "list", projs |-> Truth(pmid)]}

(***************************************************************************)
(* The files.                                                              *)
(***************************************************************************)
\* state = {"current_shard": 0, "retstart": 0, "shards": [], "processed_pmids": []}
DefaultState ==
    [current_shard |-> 0, retstart |-> 0, shards |-> << >>, processed_pmids |-> << >>]

NoStateFile ==
    [exists |-> FALSE, current_shard |-> 0, retstart |-> 0, shards |-> << >>,
     processed_pmids |-> << >>]

\* a dump that leaves the processed list out
Dump_NoProcessed(st) ==
    [exists |-> TRUE, current_shard |-> st.current_shard, retstart |-> st.retstart,
     shards |-> st.shards, processed_pmids |-> << >>]

\* json.dump(state, sf): the file holds the four entries of the dict
Dump(st) ==
    [exists |-> TRUE, current_shard |-> st.current_shard, retstart |-> st.retstart,
     shards |-> st.shards, processed_pmids |-> st.processed_pmids]

\* a load that keeps the shard list and the processed list but not the position
LoadState_Rewind(f) ==
    IF f.exists
    THEN [current_shard |-> 0, retstart |-> 0, shards |-> f.shards,
          processed_pmids |-> f.processed_pmids]
    ELSE DefaultState

\* a load that resumes one page after the persisted offset
LoadState_NextPage(f) ==
    IF f.exists
    THEN [current_shard |-> f.current_shard, retstart |-> f.retstart + ChunkSize,
          shards |-> f.shards, processed_pmids |-> f.processed_pmids]
    ELSE DefaultState

\* state.update(json.load(open(args.state_json))) when the file exists
LoadState(f) ==
    IF f.exists
    THEN [current_shard |-> f.current_shard, retstart |-> f.retstart,
          shards |-> f.shards, processed_pmids |-> f.processed_pmids]
    ELSE DefaultState

HeaderLine == [kind |-> "header", pmid |-> "", key |-> "", nl |-> FALSE]

RowLine(pmid, proj) == [kind |-> "row", pmid |-> pmid, key |-> proj.key, nl |-> proj.nl]

NoCsv == [exists |-> FALSE, lines |-> << >>]

\* ensure_header: the header is written only when the file does not exist
\* a header that is written over whatever is there
ensure_header_Rewrite(f) == [exists |-> TRUE, lines |-> <<HeaderLine>>]

\* the file is created with the header line only if the path does not exist
ensure_header(f) ==
    IF f.exists THEN f ELSE [exists |-> TRUE, lines |-> <<HeaderLine>>]

\* the lines of text a sequence of csv lines takes in the file: a row whose
\* Pointer field holds a line break takes two
RECURSIVE TextLines(_)
TextLines(ls) ==
    IF ls = << >> THEN 0
    ELSE 1 + (IF Head(ls).nl THEN 1 ELSE 0) + TextLines(Tail(ls))

\* count_rows: max(0, number of text lines - 1), 0 without a file
count_rows(f) == IF f.exists THEN Max(0, TextLines(f.lines) - 1) ELSE 0

\* the data rows the file holds
DataRows(f) == SelectSeq(f.lines, LAMBDA l : l.kind = "row")

(***************************************************************************)
(* main, step by step.                                                     *)
(***************************************************************************)
\* a planning test that never finds a plan
NeedsPlan_Always(st) == TRUE

\* if not state.get("shards")
NeedsPlan(st) == st.shards = << >>

\* a membership test that never finds the identifier
AlreadyProcessed_Never(pmid, st) == FALSE

\* if pmid in state.get("processed_pmids", [])
AlreadyProcessed(pmid, st) == pmid \in Range(st.processed_pmids)

\* a dedup test that never finds the key
KeySeen_Never(key, seen) == FALSE

\* a dedup test that also looks the key up in the output file
KeySeen_OrInFile(key, seen) ==
    \/ key \in seen
    \/ \E i \in 1 .. Len(out_csv.lines) :
          out_csv.lines[i].kind = "row" /\ <<out_csv.lines[i].pmid, out_csv.lines[i].key>> = key

\* if key in seen_keys
KeySeen(key, seen) == key \in seen

\* while current_rows < args.target_rows and state["current_shard"] < len(state["shards"])
LoopGoesOn(rows, target, st) ==
    rows < target /\ st.current_shard < Len(st.shards)

\* a failure handler that leaves the identifier unmarked
MarkProcessed_Not(st, pmid) == st

\* state["processed_pmids"].append(pmid)
MarkProcessed(st, pmid) == [st EXCEPT !.processed_pmids = Append(@, pmid)]

\* a plan that is kept as the planner gave it
NonZeroShards_All(shards) == shards

\* [s for s in shards if s[2] > 0]
NonZeroShards(shards) == SelectSeq(shards, LAMBDA s : s[3] > 0)

\* the locals of a process that is not running
ProcReset ==
    /\ pc' = "idle"
    /\ target_rows' = 0
    /\ state' = DefaultState
    /\ current_rows' = 0
    /\ seen_keys' = {}
    /\ ids' = << >>
    /\ meta_req' = << >>
    /\ summaries' = << >>
    /\ si' = 0
    /\ cur' = ""
    /\ projs' = << >>
    /\ pj' = 0

\* the arguments a process can be started with
Configs == [email : BOOLEAN, key : BOOLEAN]

\* a start-up test that only looks at the email
ConfigOk_EmailOnly(c) == c.email

\* assert args.email; assert args.anthropic_api_key
ConfigOk(c) == c.email /\ c.key

\* a metadata request for the unprocessed identifiers of the page only
MetaRequest_Unprocessed(page, st) ==
    SelectSeq(page, LAMBDA id : id \notin Range(st.processed_pmids))

\* esummary_details(ids, ...): the whole page is asked for
MetaRequest(page, st) == page

\* a process starts without an email or without an API key: an assert
\* fails before anything else is done
StartAbort ==
    /\ pc = "idle"
    /\ run < MaxRuns
    /\ \E c \in Configs :
         /\ ~ConfigOk(c)
         /\ cfg' = c
    /\ run' = run + 1
    /\ ended' = "config"
    /\ UNCHANGED <<file_vars, proc_vars, plan_calls, loaded, lastq, run_keys, clean,
                   plan_vars>>

\* a process starts: the header is ensured and the state file is loaded
Start ==
    /\ pc = "idle"
    /\ run < MaxRuns
    /\ \E c \in Configs :
         /\ ConfigOk(c)
         /\ cfg' = c
    /\ \E t \in 1 .. MaxTarget : target_rows' = t
    /\ out_csv' = ensure_header(out_csv)
    /\ csv_synced' = Len(out_csv'.lines)
    /\ state' = LoadState(state_file)
    /\ pc' = "loaded"
    /\ run' = run + 1
    /\ loaded' = state_file
    /\ lastq' = <<-1, -1>>
    /\ run_keys' = << >>
    /\ ended' = "none"
    /\ UNCHANGED <<state_file, current_rows, seen_keys, ids, meta_req, summaries, si,
                   cur, projs, pj, plan_calls, clean, plan_vars>>

\* no shard list in the state: plan_shards is called
PlanBegin ==
    /\ pc = "loaded"
    /\ NeedsPlan(state)
    /\ PlanCall(YearStart, YearEnd, PlanCap)
    /\ pc' = "planning"
    /\ plan_calls' = plan_calls + 1
    /\ UNCHANGED <<file_vars, target_rows, state, current_rows, seen_keys, ids, meta_req,
                   summaries, si, cur, projs, pj, run, loaded, cfg, lastq, run_keys,
                   clean, ended>>

\* a shard list in the state: planning is skipped
PlanSkip ==
    /\ pc = "loaded"
    /\ ~NeedsPlan(state)
    /\ pc' = "count"
    /\ UNCHANGED <<file_vars, target_rows, state, current_rows, seen_keys, ids, meta_req,
                   summaries, si, cur, projs, pj, hist_vars, plan_vars>>

\* plan_shards is at work
Planning ==
    /\ pc = "planning"
    /\ PlanSplit \/ PlanReturn
    /\ UNCHANGED <<file_vars, proc_vars, hist_vars>>

\* plan_shards returned: the shards with hits are kept and the state is saved
Planned ==
    /\ pc = "planning"
    /\ plan_pc = "returned"
    /\ state' = [state EXCEPT !.shards = NonZeroShards(plan_out),
                              !.current_shard = 0, !.retstart = 0]
    /\ state_file' = Dump(state')
    /\ PlanReset
    /\ pc' = "count"
    /\ UNCHANGED <<out_csv, csv_synced, target_rows, current_rows, seen_keys, ids, meta_req,
                   summaries, si, cur, projs, pj, hist_vars>>

\* current_rows = count_rows(args.out_csv); seen_keys = set()
CountRows ==
    /\ pc = "count"
    /\ current_rows' = count_rows(out_csv)
    /\ seen_keys' = {}
    /\ pc' = "loop"
    /\ UNCHANGED <<file_vars, target_rows, state, ids, meta_req, summaries, si, cur, projs,
                   pj, hist_vars, plan_vars>>

\* the loop condition fails: main prints [Complete] and the process ends
LoopExit ==
    /\ pc = "loop"
    /\ ~LoopGoesOn(current_rows, target_rows, state)
    /\ ProcReset
    /\ ended' = "complete"
    /\ UNCHANGED <<file_vars, run, plan_calls, loaded, cfg, lastq, run_keys, clean,
                   plan_vars>>

\* a shard transition that keeps the offset
NextShard_KeepOffset(st) == [st EXCEPT !.current_shard = @ + 1]

\* a shard transition that passes over a shard
NextShard_Two(st) == [st EXCEPT !.current_shard = @ + 2, !.retstart = 0]

\* state["current_shard"] += 1; state["retstart"] = 0
NextShard(st) == [st EXCEPT !.current_shard = @ + 1, !.retstart = 0]

\* the page fetched for the current shard is empty: on to the next shard
ShardDone ==
    /\ pc = "loop"
    /\ LoopGoesOn(current_rows, target_rows, state)
    /\ LET sh == state.shards[state.current_shard + 1]
       IN << >> \in esearch_ids(state.retstart, ChunkSize, sh[1], sh[2])
    /\ lastq' = <<state.current_shard, state.retstart>>
    /\ state' = NextShard(state)
    /\ state_file' = Dump(state')
    /\ UNCHANGED <<out_csv, csv_synced, pc, target_rows, current_rows, seen_keys,
                   ids, meta_req, summaries, si, cur, projs, pj, run, plan_calls, loaded, cfg,
                   run_keys, clean, ended, plan_vars>>

\* the page holds identifiers: their summaries are fetched and the output
\* file is opened for appending
PageOpen ==
    /\ pc = "loop"
    /\ LoopGoesOn(current_rows, target_rows, state)
    /\ LET sh == state.shards[state.current_shard + 1]
       IN \E page \in esearch_ids(state.retstart, ChunkSize, sh[1], sh[2]) :
            /\ page # << >>
            /\ ids' = page
            /\ meta_req' = MetaRequest(page, state)
            /\ \E sm \in esummary_details(meta_req') : summaries' = sm
    /\ lastq' = <<state.current_shard, state.retstart>>
    /\ si' = 1
    /\ pc' = "page"
    /\ UNCHANGED <<file_vars, target_rows, state, current_rows, seen_keys, cur,
                   projs, pj, run, plan_calls, loaded, cfg, run_keys, clean, ended,
                   plan_vars>>

\* a loop that passes over an entry
NextEntry_Skip(i) == i + 2

\* for meta in summaries: on to the next entry
NextEntry(i) == i + 1

\* the next entry of the page is one that is already processed: skipped
DocSkip ==
    /\ pc = "page"
    /\ si <= Len(summaries)
    /\ AlreadyProcessed(summaries[si], state)
    /\ si' = NextEntry(si)
    /\ UNCHANGED <<file_vars, pc, target_rows, state, current_rows, seen_keys, ids, meta_req,
                   summaries, cur, projs, pj, hist_vars, plan_vars>>

\* the next entry of the page: its text is resolved and the extraction is run.
\* Without text, or when the extraction raises, the identifier is marked
\* processed and the loop continues.
DocFetch ==
    /\ pc = "page"
    /\ si <= Len(summaries)
    /\ ~AlreadyProcessed(summaries[si], state)
    /\ \E o \in DocOutcomes(summaries[si]) :
         IF o.kind = "list"
         THEN /\ cur' = summaries[si]
              /\ projs' = o.projs
              /\ pj' = 1
              /\ pc' = "doc"
              /\ UNCHANGED <<state, si>>
         ELSE /\ state' = MarkProcessed(state, summaries[si])
              /\ si' = NextEntry(si)
              /\ UNCHANGED <<cur, projs, pj, pc>>
    /\ UNCHANGED <<file_vars, target_rows, current_rows, seen_keys, ids, meta_req, summaries,
                   hist_vars, plan_vars>>

\* the next projection has a key that this process already wrote: skipped
RowSkip ==
    /\ pc = "doc"
    /\ pj <= Len(projs)
    /\ KeySeen(<<cur, projs[pj].key>>, seen_keys)
    /\ pj' = pj + 1
    /\ UNCHANGED <<file_vars, pc, target_rows, state, current_rows, seen_keys, ids, meta_req,
                   summaries, si, cur, projs, hist_vars, plan_vars>>

\* the next projection is written. When the count reaches the target the
\* state is saved, main returns (which closes the output file) and the
\* process ends.
RowWrite ==
    /\ pc = "doc"
    /\ pj <= Len(projs)
    /\ ~KeySeen(<<cur, projs[pj].key>>, seen_keys)
    /\ out_csv' = [out_csv EXCEPT !.lines = Append(@, RowLine(cur, projs[pj]))]
    /\ run_keys' = Append(run_keys, <<cur, projs[pj].key>>)
    /\ IF current_rows + 1 >= target_rows
       THEN /\ state_file' = Dump(state)
            /\ csv_synced' = Len(out_csv'.lines)
            /\ ProcReset
            /\ ended' = "target"
       ELSE /\ seen_keys' = seen_keys \cup {<<cur, projs[pj].key>>}
            /\ current_rows' = current_rows + 1
            /\ pj' = pj + 1
            /\ UNCHANGED <<state_file, csv_synced, pc, target_rows, state, ids, meta_req,
                           summaries, si, cur, projs, ended>>
    /\ UNCHANGED <<run, plan_calls, loaded, cfg, lastq, clean, plan_vars>>

\* every projection of the document is handled: it is marked processed
DocEnd ==
    /\ pc = "doc"
    /\ pj > Len(projs)
    /\ state' = MarkProcessed(state, cur)
    /\ si' = NextEntry(si)
    /\ cur' = ""
    /\ projs' = << >>
    /\ pj' = 0
    /\ pc' = "page"
    /\ UNCHANGED <<file_vars, target_rows, current_rows, seen_keys, ids, meta_req, summaries,
                   hist_vars, plan_vars>>

\* a page end that leaves the offset where it is
NextPage_Same(st) == st

\* state["retstart"] += args.chunk_size
NextPage(st) == [st EXCEPT !.retstart = @ + ChunkSize]

\* every entry of the page is handled: the output file is closed, the offset
\* moves on by the page size and the state is saved
PageEnd ==
    /\ pc = "page"
    /\ si > Len(summaries)
    /\ csv_synced' = Len(out_csv.lines)
    /\ state' = NextPage(state)
    /\ state_file' = Dump(state')
    /\ ids' = << >>
    /\ meta_req' = << >>
    /\ summaries' = << >>
    /\ si' = 0
    /\ pc' = "loop"
    /\ UNCHANGED <<out_csv, target_rows, current_rows, seen_keys, cur, projs, pj,
                   hist_vars, plan_vars>>

\* the process is killed: its memory is lost, and of the rows still in the
\* writer's buffer any number, in order, may have reached the file
Kill ==
    /\ pc # "idle"
    /\ \E n \in csv_synced .. Len(out_csv.lines) :
         /\ out_csv' = [out_csv EXCEPT !.lines = SubSeq(@, 1, n)]
         /\ csv_synced' = n
    /\ ProcReset
    /\ PlanReset
    /\ clean' = FALSE
    /\ ended' = "killed"
    /\ UNCHANGED <<state_file, run, plan_calls, loaded, cfg, lastq, run_keys>>

DriverIdle ==
    /\ state_file = NoStateFile
    /\ out_csv = NoCsv
    /\ csv_synced = 0
    /\ pc = "idle"
    /\ target_rows = 0
    /\ state = DefaultState
    /\ current_rows = 0
    /\ seen_keys = {}
    /\ ids = << >>
    /\ meta_req = << >>
    /\ summaries = << >>
    /\ si = 0
    /\ cur = ""
    /\ projs = << >>
    /\ pj = 0
    /\ run = 0
    /\ plan_calls = 0
    /\ loaded = NoStateFile
    /\ cfg = [email |-> TRUE, key |-> TRUE]
    /\ lastq = <<-1, -1>>
    /\ run_keys = << >>
    /\ clean = TRUE
    /\ ended = "none"

\* no call of plan_shards under way
PlanIdle ==
    /\ plan_pc = "idle"
    /\ plan_args = [start_year |-> YearStart, end_year |-> YearEnd, cap |-> PlanCap]
    /\ plan_stack = << >>
    /\ plan_out = << >>
    /\ plan_log = << >>
    /\ plan_depth = 0

\* no run yet: no state file, no output file
Init ==
    /\ DriverIdle
    /\ PlanIdle
    /\ HttpIdle
    /\ PipeIdle
    /\ LoaderIdle
    /\ CallIdle
    /\ PoolIdle
    /\ FlexIdle

\* one step of the driver; nothing else is running
Next ==
    \/ StartAbort /\ UNCHANGED aux_vars
    \/ Start /\ UNCHANGED aux_vars
    \/ PlanBegin /\ UNCHANGED aux_vars
    \/ PlanSkip /\ UNCHANGED aux_vars
    \/ Planning /\ UNCHANGED aux_vars
    \/ Planned /\ UNCHANGED aux_vars
    \/ CountRows /\ UNCHANGED aux_vars
    \/ LoopExit /\ UNCHANGED aux_vars
    \/ ShardDone /\ UNCHANGED aux_vars
    \/ PageOpen /\ UNCHANGED aux_vars
    \/ DocSkip /\ UNCHANGED aux_vars
    \/ DocFetch /\ UNCHANGED aux_vars
    \/ RowSkip /\ UNCHANGED aux_vars
    \/ RowWrite /\ UNCHANGED aux_vars
    \/ DocEnd /\ UNCHANGED aux_vars
    \/ PageEnd /\ UNCHANGED aux_vars
    \/ Kill /\ UNCHANGED aux_vars

Spec == Init /\ [][Next]_vars

(***************************************************************************)
(* The planner on its own: any range of the window, any cap, any counts.   *)
(***************************************************************************)
PlanInit ==
    /\ plan_pc = "split"
    /\ \E y0 \in Years, y1 \in Years, cap \in Caps :
         /\ y0 <= y1
         /\ plan_args = [start_year |-> y0, end_year |-> y1, cap |-> cap]
         /\ plan_stack = << <<y0, y1, 1>> >>
    /\ plan_out = << >>
    /\ plan_log = << >>
    /\ plan_depth = 0
    /\ DriverIdle
    /\ HttpIdle
    /\ PipeIdle
    /\ LoaderIdle
    /\ CallIdle
    /\ PoolIdle
    /\ FlexIdle

PlanNext ==
    \/ PlanSplit /\ UNCHANGED <<drv_vars, aux_vars>>
    \/ PlanReturn /\ UNCHANGED <<drv_vars, aux_vars>>

SpecPlan == PlanInit /\ [][PlanNext]_vars

(***************************************************************************)
(* safe_json on its own, under every sequence of request outcomes.         *)
(***************************************************************************)
HttpNext ==
    \/ SafeCall /\ UNCHANGED <<plan_vars, drv_vars, pipe_vars, load_vars, call_vars, pool_vars, flex_vars>>
    \/ GetAttempt /\ UNCHANGED <<plan_vars, drv_vars, pipe_vars, load_vars, call_vars, pool_vars, flex_vars>>
    \/ GetGiveUp /\ UNCHANGED <<plan_vars, drv_vars, pipe_vars, load_vars, call_vars, pool_vars, flex_vars>>
    \/ SafeHandle /\ UNCHANGED <<plan_vars, drv_vars, pipe_vars, load_vars, call_vars, pool_vars, flex_vars>>
    \/ SafeGiveUp /\ UNCHANGED <<plan_vars, drv_vars, pipe_vars, load_vars, call_vars, pool_vars, flex_vars>>

HttpInit ==
    /\ SafeJsonCalled
    /\ PlanIdle
    /\ DriverIdle
    /\ PipeIdle
    /\ LoaderIdle
    /\ CallIdle
    /\ PoolIdle
    /\ FlexIdle

SpecHttp == HttpInit /\ [][HttpNext]_vars

(***************************************************************************)
(* claude_extract_multiagent on its own, under every answer of the stages. *)
(***************************************************************************)
PipeInit ==
    /\ ExtractCalled
    /\ PlanIdle
    /\ DriverIdle
    /\ HttpIdle
    /\ LoaderIdle
    /\ CallIdle
    /\ PoolIdle
    /\ FlexIdle

PipeNext ==
    \/ ExtractStart /\ UNCHANGED <<plan_vars, drv_vars, http_vars, load_vars, call_vars, pool_vars, flex_vars>>
    \/ Agent1 /\ UNCHANGED <<plan_vars, drv_vars, http_vars, load_vars, call_vars, pool_vars, flex_vars>>
    \/ Agent2 /\ UNCHANGED <<plan_vars, drv_vars, http_vars, load_vars, call_vars, pool_vars, flex_vars>>
    \/ Agent3 /\ UNCHANGED <<plan_vars, drv_vars, http_vars, load_vars, call_vars, pool_vars, flex_vars>>

SpecPipe == PipeInit /\ [][PipeNext]_vars

(***************************************************************************)
(* The loader on its own, under every mix of spreadsheet rows.             *)
(***************************************************************************)
LoaderInit ==
    /\ LoaderIdle
    /\ PlanIdle
    /\ DriverIdle
    /\ HttpIdle
    /\ PipeIdle
    /\ CallIdle
    /\ PoolIdle
    /\ FlexIdle

LoaderNext ==
    \/ ProjectRow /\ UNCHANGED <<plan_vars, drv_vars, http_vars, pipe_vars, call_vars, pool_vars, flex_vars>>
    \/ ReferencesRow /\ UNCHANGED <<plan_vars, drv_vars, http_vars, pipe_vars, call_vars, pool_vars, flex_vars>>
    \/ CircuitsRow /\ UNCHANGED <<plan_vars, drv_vars, http_vars, pipe_vars, call_vars, pool_vars, flex_vars>>
    \/ ConnectionsRow /\ UNCHANGED <<plan_vars, drv_vars, http_vars, pipe_vars, call_vars, pool_vars, flex_vars>>

SpecLoader == LoaderInit /\ [][LoaderNext]_vars

(***************************************************************************)
(* The callers of the fetch primitives on their own, under every answer.   *)
(***************************************************************************)
CallInit ==
    /\ CallerCalled
    /\ PlanIdle
    /\ DriverIdle
    /\ HttpIdle
    /\ PipeIdle
    /\ LoaderIdle
    /\ PoolIdle
    /\ FlexIdle

CallNext ==
    \/ CallCount /\ UNCHANGED <<plan_vars, drv_vars, http_vars, pipe_vars, load_vars, pool_vars, flex_vars>>
    \/ CallIds /\ UNCHANGED <<plan_vars, drv_vars, http_vars, pipe_vars, load_vars, pool_vars, flex_vars>>
    \/ CallSummaries /\ UNCHANGED <<plan_vars, drv_vars, http_vars, pipe_vars, load_vars, pool_vars, flex_vars>>
    \/ ResolveLinks /\ UNCHANGED <<plan_vars, drv_vars, http_vars, pipe_vars, load_vars, pool_vars, flex_vars>>
    \/ ResolvePmc /\ UNCHANGED <<plan_vars, drv_vars, http_vars, pipe_vars, load_vars, pool_vars, flex_vars>>
    \/ ResolveLinked /\ UNCHANGED <<plan_vars, drv_vars, http_vars, pipe_vars, load_vars, pool_vars, flex_vars>>
    \/ ResolveFallback /\ UNCHANGED <<plan_vars, drv_vars, http_vars, pipe_vars, load_vars, pool_vars, flex_vars>>
    \/ ResolveAbstract /\ UNCHANGED <<plan_vars, drv_vars, http_vars, pipe_vars, load_vars, pool_vars, flex_vars>>

SpecCall == CallInit /\ [][CallNext]_vars

(***************************************************************************)
(* The query application's handlers on their own, in any interleaving.     *)
(***************************************************************************)
PoolInit ==
    /\ PoolIdle
    /\ FlexIdle
    /\ PlanIdle
    /\ DriverIdle
    /\ HttpIdle
    /\ PipeIdle
    /\ LoaderIdle
    /\ CallIdle

PoolNext ==
    \/ \E h \in Invocations : HandlerStart(h)
          /\ UNCHANGED <<plan_vars, drv_vars, http_vars, pipe_vars, load_vars, call_vars, flex_vars>>
    \/ \E h \in Invocations : Borrow(h)
          /\ UNCHANGED <<plan_vars, drv_vars, http_vars, pipe_vars, load_vars, call_vars, flex_vars>>
    \/ \E h \in Invocations : Body(h)
          /\ UNCHANGED <<plan_vars, drv_vars, http_vars, pipe_vars, load_vars, call_vars, flex_vars>>
    \/ \E h \in Invocations : Leave(h)
          /\ UNCHANGED <<plan_vars, drv_vars, http_vars, pipe_vars, load_vars, call_vars, flex_vars>>

SpecPool == PoolInit /\ [][PoolNext]_vars

(***************************************************************************)
(* The Flex Pair Finder on its own.                                        *)
(***************************************************************************)
FlexInit ==
    /\ FlexIdle
    /\ PlanIdle
    /\ DriverIdle
    /\ HttpIdle
    /\ PipeIdle
    /\ LoaderIdle
    /\ CallIdle
    /\ PoolIdle

FlexNext ==
    \/ SelectRegion
          /\ UNCHANGED <<plan_vars, drv_vars, http_vars, pipe_vars, load_vars, call_vars, pool_vars>>
    \/ RefreshCandidates
          /\ UNCHANGED <<plan_vars, drv_vars, http_vars, pipe_vars, load_vars, call_vars, pool_vars>>
    \/ ChangeMode
          /\ UNCHANGED <<plan_vars, drv_vars, http_vars, pipe_vars, load_vars, call_vars, pool_vars>>

SpecFlex == FlexInit /\ [][FlexNext]_vars

(***************************************************************************)
(* Claims about the shard planner (checked under SpecPlan).                *)
(***************************************************************************)
NumYears == plan_args.end_year - plan_args.start_year + 1

\* the least k with 2^k >= n
CeilLog2(n) == CHOOSE k \in 0 .. n : 2^k >= n /\ \A j \in 0 .. (k - 1) : 2^j < n

\* C1: when plan_shards returns, its list is non-empty, every shard has
\* y0 <= y1, the first shard starts at start_year, the last ends at end_year,
\* and each following shard starts at the previous shard's end + 1.
C1_ContiguousCover ==
    plan_pc = "returned" =>
        /\ Len(plan_out) >= 1
        /\ \A i \in 1 .. Len(plan_out) : plan_out[i][1] <= plan_out[i][2]
        /\ plan_out[1][1] = plan_args.start_year
        /\ plan_out[Len(plan_out)][2] = plan_args.end_year
        /\ \A i \in 1 .. (Len(plan_out) - 1) :
              plan_out[i + 1][1] = plan_out[i][2] + 1

\* a call that bisected: it returned two shards or more
C1_Witness == plan_pc = "returned" /\ Len(plan_out) >= 2

\* C2: every returned shard has c <= cap unless it is a single-year leaf.
C2_CapOrSingleYear ==
    \A i \in 1 .. Len(plan_out) :
        plan_out[i][3] <= plan_args.cap \/ plan_out[i][1] = plan_out[i][2]

\* the counts of the worked scenario, by range
ScenarioCount(y0, y1) ==
    CASE y0 = 2000 /\ y1 = 2003 -> 250
      [] y0 = 2000 /\ y1 = 2001 -> 150
      [] y0 = 2002 /\ y1 = 2003 -> 90
      [] y0 = 2000 /\ y1 = 2000 -> 80
      [] y0 = 2001 /\ y1 = 2001 -> 60
      [] OTHER -> -1

\* every count the index reported was the scenario's count for that range
ScenarioRun ==
    /\ plan_args = [start_year |-> 2000, end_year |-> 2003, cap |-> 100]
    /\ \A i \in 1 .. Len(plan_log) :
          ScenarioCount(plan_log[i][1], plan_log[i][2]) # -1
            => plan_log[i][3] = ScenarioCount(plan_log[i][1], plan_log[i][2])

\* C3: in the worked scenario plan_shards(2000, 2003) with cap 100 returns
\* exactly (2000,2000,80), (2001,2001,60), (2002,2003,90), in that order.
C3_ScenarioLeaves ==
    (plan_pc = "returned" /\ ScenarioRun) =>
        plan_out = << <<2000, 2000, 80>>, <<2001, 2001, 60>>, <<2002, 2003, 90>> >>

\* C4: plan_shards terminates whatever the counts are: a call of split is
\* always able to proceed, no range is queried twice (one count query per
\* range visited), a range of n years is answered within 2n - 1 queries, and
\* split is never nested deeper than ceil(log2(n)) + 1.
C4_TerminatesWithinDepth ==
    /\ plan_pc = "split" => ENABLED PlanNext
    /\ \A i, j \in 1 .. Len(plan_log) :
          i < j => <<plan_log[i][1], plan_log[i][2]>> # <<plan_log[j][1], plan_log[j][2]>>
    /\ Len(plan_log) <= 2 * NumYears - 1
    /\ plan_depth <= CeilLog2(NumYears) + 1
    /\ \A i \in 1 .. Len(plan_stack) : plan_stack[i][3] <= CeilLog2(NumYears) + 1

\* a call that returned although every count it was given exceeded the cap
C4_Witness ==
    /\ plan_pc = "returned"
    /\ plan_depth >= 2
    /\ \A i \in 1 .. Len(plan_log) : plan_log[i][3] > plan_args.cap

(***************************************************************************)
(* Claims about the crawl driver (checked under Spec).                     *)
(***************************************************************************)
\* the position <<s1, r1>> is not before <<s0, r0>>
NotBefore(s1, r1, s0, r0) == s1 > s0 \/ (s1 = s0 /\ r1 >= r0)

\* C5: a run that found a state file with a non-empty shard list, current_shard
\* = i and retstart = p issues identifier queries, and works, only at shard i
\* from offset p on and at later shards.
C5_ResumeNeverGoesBack ==
    loaded.shards # << >> =>
        /\ lastq # <<-1, -1>> =>
              NotBefore(lastq[1], lastq[2], loaded.current_shard, loaded.retstart)
        /\ pc \in {"count", "loop", "page", "doc"} =>
              NotBefore(state.current_shard, state.retstart,
                        loaded.current_shard, loaded.retstart)

\* a run resumed inside a shard, past its first page, has queried the index
C5_Witness ==
    /\ loaded.shards # << >>
    /\ loaded.retstart > 0
    /\ lastq # <<-1, -1>>
    /\ pc = "page"

\* a step of main in which the text of summaries[si] was resolved: the
\* extraction started, or the identifier was marked processed after a failure
ResolvedEntry ==
    /\ pc = "page"
    /\ pc' \in {"page", "doc"}
    /\ pc' = "doc" \/ state' # state

\* a step of main in which a row was written
WroteRow == pc = "doc" /\ run_keys' # run_keys

\* C6: an identifier that is in processed_pmids (from the state file or added
\* earlier in the run) is never handed to the text resolver or the extraction
\* again, and no row is written for it.
C6_ProcessedNeverRedone ==
    [][/\ ResolvedEntry => summaries[si] \notin Range(state.processed_pmids)
       /\ WroteRow => /\ cur \notin Range(state.processed_pmids)
                       /\ cur \notin Range(loaded.processed_pmids)]_vars

\* a resumed run has passed over an entry of the page that the state file
\* lists as processed
C6_Witness ==
    /\ pc = "page"
    /\ si >= 2
    /\ summaries[si - 1] \in Range(loaded.processed_pmids)

\* C7: within one run no key (pmid, sender, receiver) is written twice, and the
\* row count grows by exactly the rows written.
C7_OneRowPerKey ==
    /\ \A i, j \in 1 .. Len(run_keys) : i < j => run_keys[i] # run_keys[j]
    /\ pc \in {"loop", "page", "doc"} =>
          /\ seen_keys = Range(run_keys)
          /\ current_rows = count_rows(
                [out_csv EXCEPT !.lines = SubSeq(@, 1, Len(@) - Len(run_keys))])
                + Len(run_keys)

\* a document whose extraction repeats a key has had the repeat skipped
C7_Witness ==
    /\ pc = "doc"
    /\ \E i, j \in 1 .. Len(projs) : i < j /\ j < pj /\ projs[i].key = projs[j].key

\* C8: in a run that started with fewer data rows than target_rows (no process
\* was ever killed), the row count in memory is the number of data rows of
\* the output file, and the file never holds more than target_rows data rows.
C8_RowCountExact ==
    (/\ clean
     /\ pc \in {"loop", "page", "doc"}
     /\ Len(DataRows(out_csv)) - Len(run_keys) < target_rows) =>
        /\ current_rows = Len(DataRows(out_csv))
        /\ Len(DataRows(out_csv)) <= target_rows

\* C9: a run that resumes after TARGET_REACHED (no process was ever killed)
\* never writes a row again: no (pmid, sender, receiver) is in the file twice.
C9_ResumeWritesNoRowAgain ==
    clean =>
        \A i, j \in 1 .. Len(DataRows(out_csv)) :
            i < j => <<DataRows(out_csv)[i].pmid, DataRows(out_csv)[i].key>>
                       # <<DataRows(out_csv)[j].pmid, DataRows(out_csv)[j].key>>

\* C10 as stated: over runs that all ended by themselves plan_shards is called
\* once.
C10_PlannedOnce == clean => plan_calls <= 1

\* C10, amended: plan_shards runs only in a run that found no non-empty shard
\* list in the state file; a run that found one skips planning and goes on
\* with the shard list, current_shard and retstart as persisted.
C10_PlanOnlyWithoutShards ==
    /\ pc = "planning" => loaded.shards = << >>
    /\ plan_pc # "idle" => pc = "planning"
    /\ (loaded.shards # << >> /\ pc \in {"loaded", "count", "loop", "page", "doc"}) =>
          state.shards = loaded.shards
    /\ (loaded.shards # << >> /\ pc \in {"loaded", "count"}) =>
          /\ state.current_shard = loaded.current_shard
          /\ state.retstart = loaded.retstart

\* a later run has skipped planning on a persisted shard list
C10_Witness ==
    /\ run >= 2
    /\ pc = "count"
    /\ loaded.shards # << >>
    /\ loaded.retstart > 0
    /\ plan_calls = 1

\* a step of main in which an entry that was not yet processed was left
\* without its extraction result: no text, or the extraction raised
FailedEntry ==
    /\ pc = "page"
    /\ pc' = "page"
    /\ si' = si + 1
    /\ summaries[si] \notin Range(state.processed_pmids)

FailedRequests == {i \in 1 .. Len(h_log) : h_log[i] = 0 \/ h_log[i] >= 400}

\* C12 as stated: eutils_get makes at most 6 requests and returns None
\* whenever no request returned status 200.
C12_NoneUnless200 ==
    /\ Len(h_log) <= 6
    /\ (h_pc = "got" /\ 200 \notin Range(h_log)) => h_ret = NoResponse

\* C12: eutils_get makes at most 6 requests; it returns None exactly when
\* all 6 ended in an exception or an error status, and otherwise returns
\* the first response whose status is not an error status (200, or another
\* such as 204). safe_json makes at most 5 calls of eutils_get and so at most
\* 30 requests; it returns the body of the first returned response that
\* parses as JSON, and {} after 5 calls when none does.
C12_BoundedRetries ==
    /\ Len(h_log) <= 6
    /\ s_calls <= 5
    /\ h_total <= 30
    /\ h_pc = "got" =>
         IF FailedRequests = 1 .. Len(h_log)
         THEN h_ret = NoResponse /\ Len(h_log) = 6
         ELSE /\ h_ret.kind = "resp"
              /\ h_ret.status = h_log[Len(h_log)]
              /\ h_ret.status \in 1 .. 399
              /\ FailedRequests = 1 .. (Len(h_log) - 1)
    /\ h_pc = "done" =>
         \/ /\ s_ret = "json"
            /\ h_ret.kind = "resp"
            /\ h_ret.json
            /\ s_calls = s_att + 1
         \/ /\ s_ret = "empty"
            /\ s_calls = 5
            /\ s_att = 5
            /\ ~(h_ret.kind = "resp" /\ h_ret.json)

\* safe_json gave up after 5 calls of 6 failed requests each
C12_Witness ==
    /\ h_pc = "done"
    /\ s_ret = "empty"
    /\ h_total = 30
    /\ h_ret = NoResponse

\* the scenario of C13: 503 three times, then 200, and eutils_get returned
ScenarioFetch == h_pc = "got" /\ h_log = <<503, 503, 503, 200>>

\* C13 as stated: after 503, 503, 503, 200 eutils_get returns the 200
\* response and backoff_sleep has been invoked exactly twice.
C13_TwoSleeps ==
    ScenarioFetch => /\ h_ret.kind = "resp"
                     /\ h_ret.status = 200
                     /\ h_sleeps = 2

\* C13: after 503, 503, 503, 200 eutils_get returns the 200 response and
\* backoff_sleep has been invoked exactly three times, once after each 503;
\* in general once after every failed request.
C13_SleepAfterEachFailure ==
    /\ ScenarioFetch => /\ h_ret.kind = "resp"
                        /\ h_ret.status = 200
                        /\ h_sleeps = 3
    /\ h_sleeps = Cardinality(FailedRequests)

C13_Witness == ScenarioFetch /\ h_ret.json

(***************************************************************************)
(* Claims about the extraction pipeline (checked under SpecPipe).          *)
(***************************************************************************)
\* the answer holds zero records: no tool result, no field, or an empty list
ZeroRecords(ans) ==
    \/ ans.kind \in {"notool", "nofield"}
    \/ ans.kind = "list" /\ ans.value = << >>

StagesCalled == {ex_calls[i].stage : i \in 1 .. Len(ex_calls)}

\* C14: when stage 1 returns zero regions (no tool result, no regions
\* field, or an empty regions list), neither stage 2 nor stage 3 is invoked
\* and the call returns [].
C14_NoRegionsShortCircuit ==
    (Len(ex_resp) >= 1 /\ ZeroRecords(ex_resp[1])) =>
        /\ StagesCalled = {1}
        /\ ex_pc = "done"
        /\ ex_ret = << >>

\* C15: when stage 2 returns zero projections (no tool result, no
\* projections field, or an empty projections list), stage 3 is not invoked
\* and the call returns [].
C15_NoProjectionsShortCircuit ==
    (Len(ex_resp) >= 2 /\ ZeroRecords(ex_resp[2])) =>
        /\ StagesCalled = {1, 2}
        /\ ex_pc = "done"
        /\ ex_ret = << >>

ClassFields == {"method", "method_confidence", "taxon", "taxon_confidence"}

\* stage 3 was called and raised or gave no usable classification
Stage3Failed ==
    /\ ex_pc = "done"
    /\ Len(ex_resp) = 3
    /\ ex_resp[3].kind \in {"raise", "notool", "nofield", "null"}

\* C16: when stage 3 raises or returns no usable classification, the call
\* returns stage 2's records, same count and order, each with method and
\* taxon "Unspecified", both confidences 0.0 and every other field as
\* stage 2 gave it.
C16_Stage3FailureKeepsProjections ==
    Stage3Failed =>
        LET given == ex_resp[2].value
        IN  /\ Len(ex_ret) = Len(given)
            /\ \A i \in 1 .. Len(given) :
                 /\ DOMAIN ex_ret[i] = DOMAIN given[i] \cup ClassFields
                 /\ ex_ret[i].method = "Unspecified"
                 /\ ex_ret[i].method_confidence = 0
                 /\ ex_ret[i].taxon = "Unspecified"
                 /\ ex_ret[i].taxon_confidence = 0
                 /\ \A f \in DOMAIN given[i] \ ClassFields : ex_ret[i][f] = given[i][f]

\* stage 3 raised on two projections, one of which came with a method
C16_Witness ==
    /\ Stage3Failed
    /\ ex_resp[3].kind = "raise"
    /\ ex_resp[2].value = <<ProjB, ProjA>>

(***************************************************************************)
(* Claims about the driver's files and start-up (checked under Spec).      *)
(***************************************************************************)
\* C17: the output file is append-only over any sequence of runs. The
\* header is written once, by the step that creates the file, and stays the
\* only header and the first line; every line that has reached the file
\* (every line of an earlier run is one) stays where it is, as it is.
C17_AppendOnly ==
    [][/\ out_csv.exists => out_csv'.exists
       /\ (~out_csv.exists /\ out_csv'.exists) => out_csv'.lines = <<HeaderLine>>
       /\ out_csv'.exists =>
            /\ out_csv'.lines[1] = HeaderLine
            /\ \A i \in 2 .. Len(out_csv'.lines) : out_csv'.lines[i] # HeaderLine
       /\ out_csv.exists =>
            /\ Len(out_csv'.lines) >= csv_synced
            /\ csv_synced' >= csv_synced
            /\ \A i \in 1 .. csv_synced : out_csv'.lines[i] = out_csv.lines[i]]_vars

\* a second run has appended a row to the rows of the first
C17_Witness ==
    /\ run = 2
    /\ clean
    /\ pc # "idle"
    /\ Len(run_keys) >= 1
    /\ Len(DataRows(out_csv)) > Len(run_keys)

\* a process is started
ProcessStarts == pc = "idle" /\ run' = run + 1

\* C18: a process started without the email or without the API key aborts
\* at start-up: the output file and the state file are neither created nor
\* changed, no query is sent and nothing is planned; and no process runs
\* without both.
C18_AbortsBeforeAnyEffect ==
    [][/\ (ProcessStarts /\ ~(cfg'.email /\ cfg'.key)) =>
            /\ ended' = "config"
            /\ pc' = "idle"
            /\ state_file' = state_file
            /\ out_csv' = out_csv
            /\ plan_calls' = plan_calls
            /\ plan_pc' = plan_pc
            /\ lastq' = lastq
            /\ meta_req' = meta_req
       /\ pc' # "idle" => cfg'.email /\ cfg'.key]_vars

\* a process without an API key has aborted, after an earlier one left its
\* files
C18_Witness ==
    /\ ended = "config"
    /\ cfg.email
    /\ ~cfg.key
    /\ out_csv.exists
    /\ state_file.exists
    /\ pc = "idle"

\* a page is fetched and its metadata asked for
PageOpened == pc = "loop" /\ pc' = "page"

\* C20 as stated: metadata is asked for only for the identifiers of the
\* page that are not in processed_pmids.
C20_MetadataOnlyForUnprocessed ==
    [][PageOpened =>
         \A i \in 1 .. Len(meta_req') :
            meta_req'[i] \notin Range(state.processed_pmids)]_vars

\* C20: metadata is asked for in one batch for every identifier of the
\* page, processed or not; the entries that come back are then filtered, and
\* only an entry that is not in processed_pmids has its text resolved.
C20_MetadataForWholePage ==
    [][/\ PageOpened =>
            /\ meta_req' = ids'
            /\ Range(summaries') \subseteq Range(ids')
       /\ ResolvedEntry => summaries[si] \notin Range(state.processed_pmids)
       /\ (pc = "page" /\ si <= Len(summaries)
             /\ summaries[si] \in Range(state.processed_pmids)) =>
              \/ /\ si' = si + 1
                 /\ state' = state
                 /\ out_csv' = out_csv
              \/ pc' = "idle"]_vars

\* a page was opened that holds an identifier the state file had as processed
C20_Witness ==
    /\ pc = "page"
    /\ si = 1
    /\ \E i \in 1 .. Len(meta_req) : meta_req[i] \in Range(loaded.processed_pmids)
    /\ \E i \in 1 .. Len(summaries) : summaries[i] \in Range(state.processed_pmids)

(***************************************************************************)
(* Claims about the loader (checked under SpecLoader).                     *)
(***************************************************************************)
\* C19: after any mix of loader row operations every foreign key holds:
\* a connections row has its sender circuit, its receiver circuit and its
\* reference, a circuits row has its project, a references row with a
\* project_id has that project; no insert has failed on a foreign key and
\* the integrity checks of run_tests count no row.
C19_ForeignKeysHold ==
    /\ ~db.fk_error
    /\ \A c \in db.connections :
         /\ \E k \in db.circuits : k.circuit_id = c.sender_circuit_id
         /\ \E k \in db.circuits : k.circuit_id = c.receiver_circuit_id
         /\ \E r \in db.references_tbl : r.reference_id = c.reference_id
    /\ \A k \in db.circuits : \E q \in db.project : q.project_id = k.project_id
    /\ \A r \in db.references_tbl :
         r.project_id # None => \E q \in db.project : q.project_id = r.project_id
    /\ IntegrityViolations(db) = 0

\* a connections row stands on parents that were all created for it: a
\* placeholder sender circuit with its placeholder project, and a
\* placeholder reference
C19_Witness ==
    \E c \in db.connections :
        /\ [circuit_id |-> c.sender_circuit_id, source_of_id |-> "AUTO_SRC",
            project_id |-> AutoProject(c.sender_circuit_id)] \in db.circuits
        /\ [project_id |-> AutoProject(c.sender_circuit_id),
            description |-> "(auto-insert)"] \in db.project
        /\ [reference_id |-> c.reference_id, title |-> "auto",
            project_id |-> None] \in db.references_tbl
        /\ c.sender_circuit_id # c.receiver_circuit_id

(***************************************************************************)
(* Claims about the driver's durable state (checked under Spec).           *)
(***************************************************************************)
\* plan_shards has returned and main stores the plan
PlanStored == pc = "planning" /\ pc' = "count"

\* C21: the shard list persisted after planning holds exactly the shards of
\* the planner's output whose count is above zero, in the planner's order
\* (increasing years); it is persisted with current_shard = 0 and
\* retstart = 0; and every shard of the state file has a count above zero.
C21_PlanPersistedWithoutEmptyShards ==
    [][/\ PlanStored =>
            /\ state_file'.exists
            /\ Range(state_file'.shards) = {sh \in Range(plan_out) : sh[3] > 0}
            /\ Len(state_file'.shards) =
                 Cardinality({i \in 1 .. Len(plan_out) : plan_out[i][3] > 0})
            /\ \A i, j \in 1 .. Len(state_file'.shards) :
                 i < j => state_file'.shards[i][2] < state_file'.shards[j][1]
            /\ state_file'.current_shard = 0
            /\ state_file'.retstart = 0
            /\ state'.shards = state_file'.shards
       /\ \A i \in 1 .. Len(state_file'.shards) : state_file'.shards[i][3] > 0]_vars

\* the persisted plan does not start at the first year: the planner's first
\* shard had no hit and was dropped
C21_Witness ==
    /\ pc = "count"
    /\ state_file.exists
    /\ state_file.shards # << >>
    /\ state_file.shards[1][1] > YearStart

\* the three places where main writes the state file inside the crawl loop
IterationEnds ==
    \/ pc = "page" /\ pc' = "loop"
    \/ pc = "loop" /\ pc' = "loop" /\ state' # state

TargetExit == pc = "doc" /\ ended' = "target"

\* C22: at the end of every iteration of the crawl loop (a processed page,
\* a shard transition) and at the exit on the target, the state file holds
\* the in-memory state: current_shard, retstart, shards, processed_pmids.
C22_StateFileIsMemory ==
    [][/\ IterationEnds =>
            /\ state_file'.exists
            /\ state_file'.current_shard = state'.current_shard
            /\ state_file'.retstart = state'.retstart
            /\ state_file'.shards = state'.shards
            /\ state_file'.processed_pmids = state'.processed_pmids
       /\ TargetExit =>
            /\ state_file'.exists
            /\ state_file'.current_shard = state.current_shard
            /\ state_file'.retstart = state.retstart
            /\ state_file'.shards = state.shards
            /\ state_file'.processed_pmids = state.processed_pmids]_vars

\* a run has stopped on its target in the second page of a shard, with
\* identifiers processed
C22_Witness ==
    /\ ended = "target"
    /\ state_file.retstart > 0
    /\ state_file.processed_pmids # << >>

\* the page fetched was empty: the loop goes round without opening a page
EmptyPage == pc = "loop" /\ pc' = "loop" /\ lastq' = <<state.current_shard, state.retstart>>
             /\ vars' # vars

\* C23: on an empty page current_shard grows by exactly 1, retstart is reset
\* to 0 and the state is persisted; the shard list, processed_pmids, the
\* output file and the row count stay as they are.
C23_EmptyPageAdvancesShard ==
    [][EmptyPage =>
         /\ state'.current_shard = state.current_shard + 1
         /\ state'.retstart = 0
         /\ state_file'.exists
         /\ state_file'.current_shard = state.current_shard + 1
         /\ state_file'.retstart = 0
         /\ state_file'.shards = state.shards
         /\ state_file'.processed_pmids = state.processed_pmids
         /\ state'.shards = state.shards
         /\ state'.processed_pmids = state.processed_pmids
         /\ out_csv' = out_csv
         /\ current_rows' = current_rows]_vars

\* a shard was left from its second page
C23_Witness ==
    /\ pc = "loop"
    /\ state.current_shard >= 1
    /\ state.retstart = 0
    /\ lastq = <<state.current_shard - 1, ChunkSize>>

(***************************************************************************)
(* The order of the stages (checked under SpecPipe).                       *)
(***************************************************************************)
\* C24: for one document each stage is called at most once and in the order
\* 1, 2, 3; stage 2 is called only after stage 1 has answered and is given
\* exactly the regions of that answer, stage 3 only after stage 2 has
\* answered and is given exactly the projections of that answer; no earlier
\* stage is called after a later one.
C24_StagesInOrder ==
    /\ Len(ex_calls) <= 3
    /\ \A i \in 1 .. Len(ex_calls) : ex_calls[i].stage = i
    /\ Len(ex_calls) <= Len(ex_resp) + 1
    /\ Len(ex_resp) <= Len(ex_calls)
    /\ \A i \in 2 .. Len(ex_calls) :
         /\ ex_resp[i - 1].kind = "list"
         /\ ex_calls[i].input = ex_resp[i - 1].value

\* all three stages ran, on two regions and two projections
C24_Witness ==
    /\ ex_pc = "done"
    /\ Len(ex_calls) = 3
    /\ ex_calls[2].input = <<"M1", "Th">>
    /\ ex_calls[3].input = <<ProjB, ProjA>>

(***************************************************************************)
(* The order of processing (checked under Spec).                           *)
(***************************************************************************)
PosIn(s, x) == CHOOSE i \in 1 .. Len(s) : s[i] = x

\* the entry was not processed when this run started: if the loop is past
\* it, this run has processed it in the page in hand
ProcessedHere(i) == i < si /\ summaries[i] \notin Range(loaded.processed_pmids)

CrawlStep ==
    \/ PlanBegin /\ UNCHANGED aux_vars
    \/ PlanSkip /\ UNCHANGED aux_vars
    \/ Planning /\ UNCHANGED aux_vars
    \/ Planned /\ UNCHANGED aux_vars
    \/ CountRows /\ UNCHANGED aux_vars
    \/ LoopExit /\ UNCHANGED aux_vars
    \/ ShardDone /\ UNCHANGED aux_vars
    \/ PageOpen /\ UNCHANGED aux_vars
    \/ DocSkip /\ UNCHANGED aux_vars
    \/ DocFetch /\ UNCHANGED aux_vars
    \/ RowSkip /\ UNCHANGED aux_vars
    \/ RowWrite /\ UNCHANGED aux_vars
    \/ DocEnd /\ UNCHANGED aux_vars
    \/ PageEnd /\ UNCHANGED aux_vars

LiveNext ==
    \/ StartAbort /\ UNCHANGED aux_vars
    \/ Start /\ UNCHANGED aux_vars
    \/ CrawlStep

SpecLive == Init /\ [][LiveNext]_vars /\ WF_vars(CrawlStep)

Exhausted ==
    /\ c_in # << >>
    /\ IF c_fn = "resolve_text_for_pmid"
       THEN c_in[1].kind = "none"
       ELSE \A i \in 1 .. Len(c_in) : c_in[i] = EmptyJson

\* C27: when the fetch primitive has exhausted its retries no caller raises:
\* esearch_count returns 0, esearch_ids returns [], esummary_details returns
\* [] and resolve_text_for_pmid returns an empty text.
C27_ExhaustedMeansUnavailable ==
    (Exhausted /\ c_pc \in {"done", "raised"}) =>
        /\ c_pc = "done"
        /\ c_fn = "esearch_count" => c_ret = 0
        /\ c_fn = "esearch_ids" => c_ret = << >>
        /\ c_fn = "esummary_details" => c_ret = << >>
        /\ c_fn = "resolve_text_for_pmid" => c_ret.text = ""

\* esummary_details has returned after both of its requests were given up
C27_Witness ==
    /\ c_pc = "done"
    /\ c_fn = "esummary_details"
    /\ Len(c_in) = 2
    /\ Exhausted

RECURSIVE FirstText(_)
FirstText(ts) ==
    IF ts = << >> THEN ""
    ELSE IF ts[1] # "" THEN ts[1] ELSE FirstText(Tail(ts))

SourceRank(src) ==
    CASE src = "pmc" -> 1 [] src = "pdf" -> 2 [] src = "html" -> 3 [] src = "abstract" -> 4

\* C29: resolve_text_for_pmid tries the sources in the order PMC PDF, linked
\* PDF, linked page, abstract, each at most once; it returns the first
\* non-empty text; nothing is tried after a source has given a text, so the
\* abstract is asked for only when every full-text attempt gave none; when
\* every source fails it returns an empty text and does not raise.
C29_FirstTextInFixedOrder ==
    c_fn = "resolve_text_for_pmid" =>
        /\ c_pc # "raised"
        /\ Len(c_ans) = Len(c_log)
        /\ \A i, j \in 1 .. Len(c_log) : i < j => SourceRank(c_log[i]) < SourceRank(c_log[j])
        /\ \A i \in 1 .. Len(c_log) : c_ans[i] \in Yields(c_log[i])
        /\ \A i \in 1 .. Len(c_ans) : c_ans[i] # "" => i = Len(c_ans)
        /\ c_pc = "done" => c_ret.text = FirstText(c_ans)
        /\ (c_pc = "done" /\ \A i \in 1 .. Len(c_ans) : c_ans[i] = "") =>
              /\ c_ret.text = ""
              /\ c_log # << >>
              /\ c_log[Len(c_log)] = "abstract"

\* the PMC PDF and the linked PDF gave no text and the linked page did: its
\* text is returned and the abstract is not asked for
C29_Witness ==
    /\ c_pc = "done"
    /\ c_log = <<"pmc", "pdf", "html">>
    /\ c_ans = <<"", "", TextOf("html")>>
    /\ c_ret.text = TextOf("html")

(***************************************************************************)
(* The dedup set over restarts (checked under Spec).                       *)
(***************************************************************************)
KeyOfLine(l) == <<l.pmid, l.key>>

\* the loop over a document's projections passes to the next one without
\* leaving the document
NextProjection == pc = "doc" /\ pc' = "doc" /\ pj' = pj + 1

\* C28: the dedup set lives only for one process. It holds exactly the keys
\* this process wrote, whatever the output file and the state file held
\* when it started, and a projection is written or skipped on that set
\* alone: it is written exactly when its key is not in the set, also when a
\* row with that key is already in the output file.
C28_DedupSetIsPerProcess ==
    /\ [](pc \in {"count", "loop", "page", "doc"} => seen_keys = Range(run_keys))
    /\ [][NextProjection =>
            IF <<cur, projs[pj].key>> \in seen_keys
            THEN out_csv' = out_csv
            ELSE out_csv'.lines = Append(out_csv.lines, RowLine(cur, projs[pj]))]_vars

\* after a run and a restart, the resumed run has written a row whose key
\* was already in the output file when it started
C28_Witness ==
    /\ run = 2
    /\ clean
    /\ LET rows == DataRows(out_csv)
           old == Len(rows) - Len(run_keys)
       IN  \E i, j \in 1 .. Len(rows) :
              /\ i <= old
              /\ j > old
              /\ KeyOfLine(rows[i]) = KeyOfLine(rows[j])

(***************************************************************************)
(* The repairs of the loader (checked under SpecLoader).                   *)
(***************************************************************************)
\* the identifiers the repairs are called with
RepairProjectIds == (ProjectCells \ {None}) \cup {AutoProject(c) : c \in CircuitCells \ {None}}
RepairCircuitIds == CircuitCells \ {None}
RepairReferenceIds == ReferenceCells \ {None}

\* C30: on every database the loader can reach, each ensure_* leaves the
\* database as it is (tables and changelog) when the row exists; when the
\* row is missing it adds the placeholder row, and ensure_circuit_exists
\* adds the project AUTO_PROJECT_<cid> before the circuit unless it is
\* there, so that no insert fails; after the call the row and its parents
\* exist, and a second call changes nothing.
C30_EnsureIsIdempotentRepair ==
    /\ \A pid \in RepairProjectIds :
          LET d1 == ensure_project_exists(db, pid)
          IN  /\ pid \in ProjectIdsOf(db) => d1 = db
              /\ pid \notin ProjectIdsOf(db) =>
                    /\ d1.project = db.project
                          \cup {[project_id |-> pid, description |-> "(auto-insert)"]}
                    /\ d1.changelog = db.changelog + 1
              /\ pid \in ProjectIdsOf(d1)
              /\ ensure_project_exists(d1, pid) = d1
    /\ \A cid \in RepairCircuitIds :
          LET d1 == ensure_circuit_exists(db, cid)
          IN  /\ cid \in CircuitIdsOf(db) => d1 = db
              /\ cid \notin CircuitIdsOf(db) =>
                    /\ AutoProject(cid) \in ProjectIdsOf(d1)
                    /\ [circuit_id |-> cid, source_of_id |-> "AUTO_SRC",
                        project_id |-> AutoProject(cid)] \in d1.circuits
                    /\ d1.project \ db.project \subseteq
                          {[project_id |-> AutoProject(cid), description |-> "(auto-insert)"]}
                    /\ (AutoProject(cid) \in ProjectIdsOf(db)) => d1.project = db.project
                    /\ d1.changelog = db.changelog
                          + (IF AutoProject(cid) \in ProjectIdsOf(db) THEN 1 ELSE 2)
              /\ cid \in CircuitIdsOf(d1)
              /\ \A r \in d1.circuits : r.project_id \in ProjectIdsOf(d1)
              /\ d1.fk_error = db.fk_error
              /\ ensure_circuit_exists(d1, cid) = d1
    /\ \A rid \in RepairReferenceIds :
          LET d1 == ensure_reference_exists(db, rid)
          IN  /\ rid \in ReferenceIdsOf(db) => d1 = db
              /\ rid \notin ReferenceIdsOf(db) =>
                    /\ d1.references_tbl = db.references_tbl
                          \cup {[reference_id |-> rid, title |-> "auto", project_id |-> None]}
                    /\ d1.changelog = db.changelog + 1
              /\ rid \in ReferenceIdsOf(d1)
              /\ d1.fk_error = db.fk_error
              /\ ensure_reference_exists(d1, rid) = d1

\* a connections row has made the loader repair a circuit: the database
\* holds the placeholder circuit and its placeholder project
C30_Witness ==
    /\ [circuit_id |-> "C1", source_of_id |-> "AUTO_SRC",
        project_id |-> AutoProject("C1")] \in db.circuits
    /\ [project_id |-> AutoProject("C1"), description |-> "(auto-insert)"] \in db.project
    /\ ~db.fk_error

(***************************************************************************)
(* Progress of the crawl and what it leaves out (checked under Spec).      *)
(***************************************************************************)
\* the identifiers the index holds for the current shard at the current offset
IndexPage ==
    LET sh == state.shards[state.current_shard + 1]
    IN  IdPage(state.retstart, ChunkSize, sh[1], sh[2])

\* C32: the driver moves past a shard only when the index holds no
\* identifier for the shard at the current offset; a page query that fails
\* after all retries does not advance current_shard.
C32_AdvanceOnlyWhenExhausted ==
    [][EmptyPage => IndexPage = << >>]_vars

\* the driver moves retstart past the page in hand
PagePassed == pc = "page" /\ pc' = "loop"

\* C33: whenever the driver moves retstart past a non-empty page, every
\* identifier returned for that page is in processed_pmids, also when the
\* metadata lookup returned fewer entries than the page has identifiers.
C33_WholePageRecorded ==
    [][PagePassed => Range(ids) \subseteq Range(state'.processed_pmids)]_vars

NoRepeat(s) == \A i, j \in 1 .. Len(s) : i # j => s[i] # s[j]

\* C34: processed_pmids holds no identifier twice, in memory and in the
\* state file, across pages, shards and resumed runs.
C34_ProcessedOnce ==
    /\ NoRepeat(state.processed_pmids)
    /\ NoRepeat(state_file.processed_pmids)

\* a resumed run has added identifiers of a later shard to those it found
C34_Witness ==
    /\ run >= 2
    /\ loaded.processed_pmids # << >>
    /\ Len(state.processed_pmids) > Len(loaded.processed_pmids)
    /\ state.current_shard >= 1
    /\ Len(state.processed_pmids) >= 3

Crawling == pc \in {"count", "loop", "page", "doc"}

\* C35: 0 <= current_shard <= len(shards) and retstart >= 0; a completed
\* iteration of the loop strictly increases (current_shard, retstart) in
\* lexicographic order: a non-empty page adds chunk_size to retstart and
\* leaves current_shard, an empty page adds 1 to current_shard; no step of
\* a run moves the pair backwards or changes the shard list after planning,
\* and a shard list in the state file is never changed.
C35_PositionMonotone ==
    /\ [](Crawling =>
            /\ 0 <= state.current_shard
            /\ state.current_shard <= Len(state.shards)
            /\ state.retstart >= 0)
    /\ [](/\ 0 <= state_file.current_shard
          /\ state_file.current_shard <= Len(state_file.shards)
          /\ state_file.retstart >= 0)
    /\ [][IterationEnds =>
            /\ pc = "page" =>
                  /\ state'.current_shard = state.current_shard
                  /\ state'.retstart = state.retstart + ChunkSize
            /\ pc = "loop" => state'.current_shard = state.current_shard + 1
            /\ \/ state'.current_shard > state.current_shard
               \/ /\ state'.current_shard = state.current_shard
                  /\ state'.retstart > state.retstart]_vars
    /\ [][(Crawling /\ pc' # "idle") =>
            /\ NotBefore(state'.current_shard, state'.retstart,
                         state.current_shard, state.retstart)
            /\ state'.shards = state.shards]_vars
    /\ [][state_file.shards # << >> => state_file'.shards = state_file.shards]_vars

\* a resumed run stands behind the last shard of a plan of two, having left
\* that shard from its second page
C35_Witness ==
    /\ run >= 2
    /\ pc = "loop"
    /\ Len(state.shards) >= 2
    /\ state.current_shard = Len(state.shards)
    /\ lastq = <<state.current_shard - 1, ChunkSize>>

\* the loop passes an entry of the page without processing it
EntryPassed == pc = "page" /\ pc' = "page" /\ si' = si + 1 /\ state' = state

\* C36: a kill loses no identifier. While a page is in hand the state file
\* holds the position of that page and a processed list that is a prefix of
\* the one in memory; a kill leaves the state file as it is; the next
\* process starts from what the file holds; and an entry is passed without
\* processing only when it is in processed_pmids. So every identifier of an
\* interrupted page is either recorded in the persisted state or met again
\* by the resumed run.
C36_KillSkipsNothing ==
    /\ [](pc \in {"page", "doc"} =>
            /\ state_file.exists
            /\ state_file.current_shard = state.current_shard
            /\ state_file.retstart = state.retstart
            /\ state_file.shards = state.shards
            /\ Len(state_file.processed_pmids) <= Len(state.processed_pmids)
            /\ SubSeq(state.processed_pmids, 1, Len(state_file.processed_pmids))
                  = state_file.processed_pmids
            /\ ids = IndexPage)
    /\ []((pc = "loaded" /\ loaded.exists) =>
            /\ state.current_shard = loaded.current_shard
            /\ state.retstart = loaded.retstart
            /\ state.shards = loaded.shards
            /\ state.processed_pmids = loaded.processed_pmids)
    /\ [][(pc # "idle" /\ ended' = "killed") => state_file' = state_file]_vars
    /\ [][EntryPassed => summaries[si] \in Range(state.processed_pmids)]_vars

\* after a kill the resumed run is extracting a document again of which the
\* killed run had already written a row
C36_Witness ==
    /\ ~clean
    /\ pc = "doc"
    /\ cur \notin Range(loaded.processed_pmids)
    /\ LET rows == DataRows(out_csv)
       IN  \E i \in 1 .. Len(rows) - Len(run_keys) : rows[i].pmid = cur

(***************************************************************************)
(* Rows the loader skips (checked under SpecLoader).                       *)
(***************************************************************************)
\* the loader has handled a row and skipped it for its missing key
RowSkipped == row_ops' = row_ops + 1 /\ last_row'.skipped

\* C37: a row that the loader skips because its primary key is missing (a
\* connections row: any of its three keys) leaves the database unchanged:
\* no table row, no placeholder parent, no changelog entry.
C37_SkippedRowChangesNothing ==
    [][RowSkipped => db' = db]_vars

(***************************************************************************)
(* Claims about the connection pool (checked under SpecPool).              *)
(***************************************************************************)
RECURSIVE HeldUpTo(_)
HeldUpTo(n) == IF n = 0 THEN 0 ELSE inv[n].held + HeldUpTo(n - 1)

\* C31: a function wrapped by with_conn borrows one connection and always
\* returns it, also when the function raises: the connections on loan are
\* exactly those held by wrapped functions that are running, and whenever
\* no handler is executing none is on loan.
C31_EveryLoanReturned ==
    /\ on_loan = HeldUpTo(PoolMax)
    /\ on_loan <= PoolMax
    /\ (\A h \in Invocations : Quiet(inv[h])) => on_loan = 0

\* no handler is executing, and the last invocations ended in an exception
\* of the wrapped function, one of them inside a nested call
C31_Witness ==
    /\ \A h \in Invocations : inv[h].pc = "failed" /\ inv[h].err = "db"
    /\ \E h \in Invocations : inv[h].kind = "nested" /\ inv[h].left = 0
    /\ on_loan = 0

\* C38: no handler invocation holds more than one pooled connection at a
\* time, and with as many invocations as the pool has connections none
\* fails on pool exhaustion.
C38_OneConnectionPerHandler ==
    \A h \in Invocations :
        /\ inv[h].held <= 1
        /\ inv[h].err # "exhausted"

(***************************************************************************)
(* Claims about the Flex Pair Finder (checked under SpecFlex).             *)
(***************************************************************************)
\* C39: a counterpart dropdown is interactive only if it has at least one
\* candidate, and the interactive flags are those update_counterparts sets
\* for the counts whenever the direction is the one it chooses for them,
\* whichever of update_counterparts and toggle_mode set them last.
C39_InteractiveOnlyWithCandidates ==
    /\ receivers_dd.interactive => receivers_dd.choices > 0
    /\ senders_dd.interactive => senders_dd.choices > 0
    /\ mode = ModeFor(counts_state.cnt_as_sender, counts_state.cnt_as_receiver)
         => LET out == update_counterparts("A",
                          [receivers |-> counts_state.cnt_as_sender,
                           senders |-> counts_state.cnt_as_receiver,
                           raised |-> FALSE])
            IN  /\ receivers_dd.interactive = out.receivers_dd.interactive
                /\ senders_dd.interactive = out.senders_dd.interactive

====
